---- MODULE Spec2Model ----
(***************************************************************************)
(* Conversational dispatch pipeline of the todo application (phase 4       *)
(* backend): tool registry, reply sanitizer, text tool-call recovery,      *)
(* intent detector, the tool handlers and AgentService.process_message.    *)
(*                                                                         *)
(* Text is a sequence of atoms.  An atom of length one is a character; a   *)
(* longer atom is a fixed phrase or word of the program's own output.  It  *)
(* holds no "<", ">", "=", "/" or line break, is never placed at the start  *)
(* or end of a text with white space of its own, never directly follows    *)
(* "<function=" or "<parameter=", and inside the text of an exception      *)
(* holds none of the words the error classification looks for, so that no  *)
(* pattern of the source can tell it from the characters it stands for.    *)
(***************************************************************************)
EXTENDS Integers, Sequences, FiniteSets, TLC

(***************************************************************************)
(* Characters and the literal tokens of the pseudo-call markup.            *)
(***************************************************************************)
Letters == {"a", "b", "c", "d", "e", "f", "g", "h", "i", "j", "k", "l", "m",
            "n", "o", "p", "q", "r", "s", "t", "u", "v", "w", "x", "y", "z"}

\* \w of the patterns
IsWord(c) == c \in Letters \cup {"_"}

\* \s of the patterns and the characters str.strip() removes
IsSpace(c) == c \in {" ", "\n"}

TOOL_OPEN == <<"<", "t", "o", "o", "l", "_", "c", "a", "l", "l", ">">>
TOOL_CLOSE == <<"<", "/", "t", "o", "o", "l", "_", "c", "a", "l", "l", ">">>
FUNC_EQ == <<"<", "f", "u", "n", "c", "t", "i", "o", "n", "=">>
FUNC_BARE == <<"<", "f", "u", "n", "c", "t", "i", "o", "n">>
FUNC_CLOSE_BARE == <<"<", "/", "f", "u", "n", "c", "t", "i", "o", "n">>
FUNC_CLOSE == <<"<", "/", "f", "u", "n", "c", "t", "i", "o", "n", ">">>
PARAM_EQ == <<"<", "p", "a", "r", "a", "m", "e", "t", "e", "r", "=">>
PARAM_BARE == <<"<", "p", "a", "r", "a", "m", "e", "t", "e", "r">>
PARAM_CLOSE_BARE == <<"<", "/", "p", "a", "r", "a", "m", "e", "t", "e", "r">>
PARAM_CLOSE == <<"<", "/", "p", "a", "r", "a", "m", "e", "t", "e", "r", ">">>

(***************************************************************************)
(* Matching primitives: the pieces of Python's re the source relies on.    *)
(***************************************************************************)
\* the literal lit occurs in s at position i
Lit(s, i, lit) ==
    /\ i >= 1
    /\ i + Len(lit) - 1 <= Len(s)
    /\ \A k \in 1..Len(lit) : s[i + k - 1] = lit[k]

\* first position >= i at which lit occurs, 0 when there is none
RECURSIVE FindLit(_, _, _)
FindLit(s, i, lit) ==
    IF i + Len(lit) - 1 > Len(s) THEN 0
    ELSE IF Lit(s, i, lit) THEN i
    ELSE FindLit(s, i + 1, lit)

\* length of the longest run of \w starting at i
RECURSIVE WordRun(_, _)
WordRun(s, i) ==
    IF i <= Len(s) /\ IsWord(s[i]) THEN 1 + WordRun(s, i + 1) ELSE 0

\* length of the longest run of \s starting at i
RECURSIVE SpaceRun(_, _)
SpaceRun(s, i) ==
    IF i <= Len(s) /\ IsSpace(s[i]) THEN 1 + SpaceRun(s, i + 1) ELSE 0

\* length of the match of  prefix \w+ >  at i, 0 when it does not match
OpenTagLen(s, i, prefix) ==
    IF ~Lit(s, i, prefix) THEN 0
    ELSE LET w == WordRun(s, i + Len(prefix))
             j == i + Len(prefix) + w
         IN  IF w >= 1 /\ j <= Len(s) /\ s[j] = ">"
             THEN Len(prefix) + w + 1
             ELSE 0

\* length of the opening part of a paired pattern at i
OpenLen(kind, s, i) ==
    CASE kind = "tool_call" -> IF Lit(s, i, TOOL_OPEN) THEN Len(TOOL_OPEN) ELSE 0
      [] kind = "function" -> OpenTagLen(s, i, FUNC_EQ)
      [] kind = "parameter" -> OpenTagLen(s, i, PARAM_EQ)

CloseLit(kind) ==
    CASE kind = "tool_call" -> TOOL_CLOSE
      [] kind = "function" -> FUNC_CLOSE
      [] kind = "parameter" -> PARAM_CLOSE

\* re.sub(r'<open>.*?<close>', '', s, flags=re.DOTALL) from position i on
RECURSIVE SubPaired(_, _, _)
SubPaired(s, i, kind) ==
    IF i > Len(s) THEN <<>>
    ELSE LET o == OpenLen(kind, s, i)
             c == IF o > 0 THEN FindLit(s, i + o, CloseLit(kind)) ELSE 0
         IN  IF o > 0 /\ c > 0
             THEN SubPaired(s, c + Len(CloseLit(kind)), kind)
             ELSE <<s[i]>> \o SubPaired(s, i + 1, kind)

\* re.sub(r'</?tool_call>', '', s) from position i on
RECURSIVE SubStrayToolCall(_, _)
SubStrayToolCall(s, i) ==
    IF i > Len(s) THEN <<>>
    ELSE IF Lit(s, i, TOOL_OPEN) THEN SubStrayToolCall(s, i + Len(TOOL_OPEN))
    ELSE IF Lit(s, i, TOOL_CLOSE) THEN SubStrayToolCall(s, i + Len(TOOL_CLOSE))
    ELSE <<s[i]>> \o SubStrayToolCall(s, i + 1)

\* re.sub(r'</?name[^>]*>', '', s) from position i on
RECURSIVE SubStrayTag(_, _, _, _)
SubStrayTag(s, i, bare, closeBare) ==
    IF i > Len(s) THEN <<>>
    ELSE LET n == IF Lit(s, i, bare) THEN Len(bare)
                  ELSE IF Lit(s, i, closeBare) THEN Len(closeBare)
                  ELSE 0
             g == IF n > 0 THEN FindLit(s, i + n, <<">">>) ELSE 0
         IN  IF n > 0 /\ g > 0
             THEN SubStrayTag(s, g + 1, bare, closeBare)
             ELSE <<s[i]>> \o SubStrayTag(s, i + 1, bare, closeBare)

\* last line break in s[from..to], 0 when there is none
RECURSIVE LastNewline(_, _, _)
LastNewline(s, from, to) ==
    IF to < from THEN 0
    ELSE IF s[to] = "\n" THEN to
    ELSE LastNewline(s, from, to - 1)

\* re.sub(r'\n\s*\n', '\n\n', s) from position i on
RECURSIVE SubBlankLines(_, _)
SubBlankLines(s, i) ==
    IF i > Len(s) THEN <<>>
    ELSE LET r == IF s[i] = "\n" THEN SpaceRun(s, i + 1) ELSE 0
             j == IF r > 0 THEN LastNewline(s, i + 1, i + r) ELSE 0
         IN  IF j > 0
             THEN <<"\n", "\n">> \o SubBlankLines(s, j + 1)
             ELSE <<s[i]>> \o SubBlankLines(s, i + 1)

\* str.strip()
RECURSIVE TrailingSpace(_, _)
TrailingSpace(s, i) ==
    IF i >= 1 /\ IsSpace(s[i]) THEN 1 + TrailingSpace(s, i - 1) ELSE 0

Strip(s) ==
    LET a == SpaceRun(s, 1)
        b == TrailingSpace(s, Len(s))
    IN  IF a >= Len(s) THEN <<>> ELSE SubSeq(s, a + 1, Len(s) - b)

(***************************************************************************)
(* A backtracking matcher for the other patterns of the source.  A         *)
(* pattern is a tree; matching a pattern at a position yields the          *)
(* sequence of its possible matches in the order Python's re tries them,   *)
(* each with the position after the match and the span of group 1.         *)
(***************************************************************************)
Digits == {"0", "1", "2", "3", "4", "5", "6", "7", "8", "9"}

UpperLetters == {"A", "B", "C", "D", "E", "F", "G", "H", "I", "J", "K", "L", "M",
                 "N", "O", "P", "Q", "R", "S", "T", "U", "V", "W", "X", "Y", "Z"}

LowerSeq == <<"a", "b", "c", "d", "e", "f", "g", "h", "i", "j", "k", "l", "m",
              "n", "o", "p", "q", "r", "s", "t", "u", "v", "w", "x", "y", "z">>

UpperSeq == <<"A", "B", "C", "D", "E", "F", "G", "H", "I", "J", "K", "L", "M",
              "N", "O", "P", "Q", "R", "S", "T", "U", "V", "W", "X", "Y", "Z">>

\* str.lower() and str.upper() on one character
LowerChar(c) ==
    IF c \in UpperLetters
    THEN LowerSeq[CHOOSE k \in 1..26 : UpperSeq[k] = c]
    ELSE c

UpperChar(c) ==
    IF c \in Letters
    THEN UpperSeq[CHOOSE k \in 1..26 : LowerSeq[k] = c]
    ELSE c

Lower(s) == [k \in 1..Len(s) |-> LowerChar(s[k])]

\* a character class: the characters named, the categories named, negated or not
InClass(cls, c) ==
    LET in == \/ c \in cls.chars
              \/ "any" \in cls.cats /\ c # "\n"
              \/ "all" \in cls.cats
              \/ "space" \in cls.cats /\ IsSpace(c)
              \/ "word" \in cls.cats /\ (IsWord(c) \/ c \in Digits \/ c \in UpperLetters)
    IN  IF cls.neg THEN ~in ELSE in

RECURSIVE ClassRun(_, _, _)
ClassRun(cls, s, i) ==
    IF i <= Len(s) /\ InClass(cls, s[i]) THEN 1 + ClassRun(cls, s, i + 1) ELSE 0

NoGroup == <<0, 0>>

RECURSIVE ReMatch(_, _, _, _)
RECURSIVE ReCat(_, _, _, _, _)
RECURSIVE ReEach(_, _, _, _, _)
RECURSIVE ReAlt(_, _, _, _, _)

\* the matches of pattern re in s at position i, best first
ReMatch(re, s, i, g) ==
    CASE re.t = "lit" ->
            IF Lit(s, i, re.s) THEN <<[e |-> i + Len(re.s), g |-> g]>> ELSE <<>>
      [] re.t = "rep" ->
            LET run == ClassRun(re.cls, s, i)
                n == run - re.min + 1
            IN  IF run < re.min THEN <<>>
                ELSE [k \in 1..n |->
                        [e |-> IF re.greedy THEN i + run - (k - 1)
                               ELSE i + re.min + (k - 1),
                         g |-> g]]
      [] re.t = "opt" -> ReMatch(re.r, s, i, g) \o <<[e |-> i, g |-> g]>>
      [] re.t = "alt" -> ReAlt(re.rs, 1, s, i, g)
      [] re.t = "cat" -> ReCat(re.rs, 1, s, i, g)
      [] re.t = "grp" ->
            LET ms == ReMatch(re.r, s, i, g)
            IN  [k \in 1..Len(ms) |-> [e |-> ms[k].e, g |-> <<i, ms[k].e>>]]
      [] re.t = "bol" -> IF i = 1 THEN <<[e |-> i, g |-> g]>> ELSE <<>>
      [] re.t = "eol" -> IF i = Len(s) + 1 THEN <<[e |-> i, g |-> g]>> ELSE <<>>

ReAlt(rs, k, s, i, g) ==
    IF k > Len(rs) THEN <<>>
    ELSE ReMatch(rs[k], s, i, g) \o ReAlt(rs, k + 1, s, i, g)

\* the matches of rs[k..] after each of the matches ms[j..] of rs[k-1]
ReEach(ms, j, rs, k, s) ==
    IF j > Len(ms) THEN <<>>
    ELSE ReCat(rs, k, s, ms[j].e, ms[j].g) \o ReEach(ms, j + 1, rs, k, s)

ReCat(rs, k, s, i, g) ==
    IF k > Len(rs) THEN <<[e |-> i, g |-> g]>>
    ELSE ReEach(ReMatch(rs[k], s, i, g), 1, rs, k + 1, s)

\* re.search(re, s) from start position i on: the first match, or NoMatch
NoMatch == [found |-> FALSE]

RECURSIVE ReSearchFrom(_, _, _)
ReSearchFrom(re, s, i) ==
    IF i > Len(s) + 1 THEN NoMatch
    ELSE LET ms == ReMatch(re, s, i, NoGroup)
         IN  IF ms # <<>>
             THEN [found |-> TRUE, start |-> i, e |-> ms[1].e, g |-> ms[1].g]
             ELSE ReSearchFrom(re, s, i + 1)

ReSearch(re, s) == ReSearchFrom(re, s, 1)

\* match.group(1)
Group1(s, m) == SubSeq(s, m.g[1], m.g[2] - 1)

\* pattern constructors
Cls(chars, cats, neg) == [chars |-> chars, cats |-> cats, neg |-> neg]
RLit(str) == [t |-> "lit", s |-> str]
RRep(cls, min, greedy) ==
    [t |-> "rep", cls |-> cls, min |-> min, greedy |-> greedy]
ROpt(r) == [t |-> "opt", r |-> r]
RAlt(rs) == [t |-> "alt", rs |-> rs]
RCat(rs) == [t |-> "cat", rs |-> rs]
RGrp(r) == [t |-> "grp", r |-> r]
RBol == [t |-> "bol"]
REol == [t |-> "eol"]

None == "None"

(***************************************************************************)
(* AgentService._detect_intent: the pattern tables, in the order of the    *)
(* source.                                                                 *)
(***************************************************************************)
Sp1 == RRep(Cls({}, {"space"}, FALSE), 1, TRUE)
Sp0 == RRep(Cls({}, {"space"}, FALSE), 0, TRUE)
Dots == RRep(Cls({}, {"any"}, FALSE), 1, TRUE)
DotsLazy == RRep(Cls({}, {"any"}, FALSE), 1, FALSE)

\* Patterns for ADD task
add_patterns ==
    \* ^add\s+(?:a\s+)?(?:task\s+)?(?:to\s+)?(.+)
    << RCat(<<RBol, RLit(<<"a", "d", "d">>), Sp1, ROpt(RCat(<<RLit(<<"a">>),
        Sp1>>)), ROpt(RCat(<<RLit(<<"t", "a", "s", "k">>), Sp1>>)),
        ROpt(RCat(<<RLit(<<"t", "o">>), Sp1>>)), RGrp(Dots)>>)
    \* ^create\s+(?:a\s+)?(?:task\s+)?(?:to\s+)?(.+)
    , RCat(<<RBol, RLit(<<"c", "r", "e", "a", "t", "e">>), Sp1,
        ROpt(RCat(<<RLit(<<"a">>), Sp1>>)), ROpt(RCat(<<RLit(<<"t", "a", "s",
        "k">>), Sp1>>)), ROpt(RCat(<<RLit(<<"t", "o">>), Sp1>>)), RGrp(Dots)>>)
    \* ^remind\s+me\s+(?:to\s+)?(.+)
    , RCat(<<RBol, RLit(<<"r", "e", "m", "i", "n", "d">>), Sp1, RLit(<<"m",
        "e">>), Sp1, ROpt(RCat(<<RLit(<<"t", "o">>), Sp1>>)), RGrp(Dots)>>)
    \* ^i\s+(?:need|have|want)\s+to\s+(.+)
    , RCat(<<RBol, RLit(<<"i">>), Sp1, RAlt(<<RLit(<<"n", "e", "e", "d">>),
        RLit(<<"h", "a", "v", "e">>), RLit(<<"w", "a", "n", "t">>)>>), Sp1,
        RLit(<<"t", "o">>), Sp1, RGrp(Dots)>>)
    \* ^(?:gotta|got\s+to)\s+(.+)
    , RCat(<<RBol, RLit(<<"g", "o", "t">>), RAlt(<<RLit(<<"t", "a">>),
        RCat(<<Sp1, RLit(<<"t", "o">>)>>)>>), Sp1, RGrp(Dots)>>)
    \* ^don'?t\s+forget\s+(?:to\s+)?(.+)
    , RCat(<<RBol, RLit(<<"d", "o", "n">>), ROpt(RLit(<<"'">>)), RLit(<<"t">>),
        Sp1, RLit(<<"f", "o", "r", "g", "e", "t">>), Sp1,
        ROpt(RCat(<<RLit(<<"t", "o">>), Sp1>>)), RGrp(Dots)>>)
    \* ^task\s*:?\s*(.+)
    , RCat(<<RBol, RLit(<<"t", "a", "s", "k">>), Sp0, ROpt(RLit(<<":">>)), Sp0,
        RGrp(Dots)>>)
    \* ^task\s+add\s+kar[o]?\s*:?\s*(.+)
    , RCat(<<RBol, RLit(<<"t", "a", "s", "k">>), Sp1, RLit(<<"a", "d", "d">>),
        Sp1, RLit(<<"k", "a", "r">>), ROpt(RLit(<<"o">>)), Sp0,
        ROpt(RLit(<<":">>)), Sp0, RGrp(Dots)>>)
    \* ^(.+)\s+add\s+kar[o]?
    , RCat(<<RBol, RGrp(Dots), Sp1, RLit(<<"a", "d", "d">>), Sp1, RLit(<<"k",
        "a", "r">>), ROpt(RLit(<<"o">>))>>)
    \* ^ek\s+(?:naya\s+)?task\s+(?:banana?\s+hai\s+)?(.+)
    , RCat(<<RBol, RLit(<<"e", "k">>), Sp1, ROpt(RCat(<<RLit(<<"n", "a", "y",
        "a">>), Sp1>>)), RLit(<<"t", "a", "s", "k">>), Sp1,
        ROpt(RCat(<<RLit(<<"b", "a", "n", "a", "n">>), ROpt(RLit(<<"a">>)), Sp1,
        RLit(<<"h", "a", "i">>), Sp1>>)), RGrp(Dots)>>)
    >>

\* Patterns for LIST tasks
list_patterns ==
    \* ^show\s+(?:me\s+)?(?:my\s+)?(?:all\s+)?tasks?
    << RCat(<<RBol, RLit(<<"s", "h", "o", "w">>), Sp1, ROpt(RCat(<<RLit(<<"m",
        "e">>), Sp1>>)), ROpt(RCat(<<RLit(<<"m", "y">>), Sp1>>)),
        ROpt(RCat(<<RLit(<<"a", "l", "l">>), Sp1>>)), RLit(<<"t", "a", "s",
        "k">>), ROpt(RLit(<<"s">>))>>)
    \* ^list\s+(?:my\s+)?(?:all\s+)?tasks?
    , RCat(<<RBol, RLit(<<"l", "i", "s", "t">>), Sp1, ROpt(RCat(<<RLit(<<"m",
        "y">>), Sp1>>)), ROpt(RCat(<<RLit(<<"a", "l", "l">>), Sp1>>)),
        RLit(<<"t", "a", "s", "k">>), ROpt(RLit(<<"s">>))>>)
    \* ^what\s+(?:are\s+)?(?:my\s+)?tasks?
    , RCat(<<RBol, RLit(<<"w", "h", "a", "t">>), Sp1, ROpt(RCat(<<RLit(<<"a",
        "r", "e">>), Sp1>>)), ROpt(RCat(<<RLit(<<"m", "y">>), Sp1>>)),
        RLit(<<"t", "a", "s", "k">>), ROpt(RLit(<<"s">>))>>)
    \* ^(?:my\s+)?tasks?\s*\??$
    , RCat(<<RBol, ROpt(RCat(<<RLit(<<"m", "y">>), Sp1>>)), RLit(<<"t", "a",
        "s", "k">>), ROpt(RLit(<<"s">>)), Sp0, ROpt(RLit(<<"?">>)), REol>>)
    \* ^what\s+do\s+i\s+have
    , RCat(<<RBol, RLit(<<"w", "h", "a", "t">>), Sp1, RLit(<<"d", "o">>), Sp1,
        RLit(<<"i">>), Sp1, RLit(<<"h", "a", "v", "e">>)>>)
    \* ^what'?s\s+pending
    , RCat(<<RBol, RLit(<<"w", "h", "a", "t">>), ROpt(RLit(<<"'">>)),
        RLit(<<"s">>), Sp1, RLit(<<"p", "e", "n", "d", "i", "n", "g">>)>>)
    \* ^pending\s+tasks?
    , RCat(<<RBol, RLit(<<"p", "e", "n", "d", "i", "n", "g">>), Sp1,
        RLit(<<"t", "a", "s", "k">>), ROpt(RLit(<<"s">>))>>)
    \* ^(?:mere\s+)?tasks?\s+dikha[o]?
    , RCat(<<RBol, ROpt(RCat(<<RLit(<<"m", "e", "r", "e">>), Sp1>>)),
        RLit(<<"t", "a", "s", "k">>), ROpt(RLit(<<"s">>)), Sp1, RLit(<<"d", "i",
        "k", "h", "a">>), ROpt(RLit(<<"o">>))>>)
    \* ^kya\s+pending\s+hai
    , RCat(<<RBol, RLit(<<"k", "y", "a">>), Sp1, RLit(<<"p", "e", "n", "d",
        "i", "n", "g">>), Sp1, RLit(<<"h", "a", "i">>)>>)
    >>

\* Patterns for COMPLETE task
complete_patterns ==
    \* ^(?:mark\s+)?(?:task\s+)?(.+?)\s+(?:as\s+)?(?:done|complete[d]?|finished)
    << RCat(<<RBol, ROpt(RCat(<<RLit(<<"m", "a", "r", "k">>), Sp1>>)),
        ROpt(RCat(<<RLit(<<"t", "a", "s", "k">>), Sp1>>)), RGrp(DotsLazy), Sp1,
        ROpt(RCat(<<RLit(<<"a", "s">>), Sp1>>)), RAlt(<<RLit(<<"d", "o", "n",
        "e">>), RCat(<<RLit(<<"c", "o", "m", "p", "l", "e", "t", "e">>),
        ROpt(RLit(<<"d">>))>>), RLit(<<"f", "i", "n", "i", "s", "h", "e",
        "d">>)>>)>>)
    \* ^complete\s+(?:task\s+)?(.+)
    , RCat(<<RBol, RLit(<<"c", "o", "m", "p", "l", "e", "t", "e">>), Sp1,
        ROpt(RCat(<<RLit(<<"t", "a", "s", "k">>), Sp1>>)), RGrp(Dots)>>)
    \* ^(?:i\s+)?(?:did|finished|done\s+with)\s+(.+)
    , RCat(<<RBol, ROpt(RCat(<<RLit(<<"i">>), Sp1>>)), RAlt(<<RLit(<<"d", "i",
        "d">>), RLit(<<"f", "i", "n", "i", "s", "h", "e", "d">>),
        RCat(<<RLit(<<"d", "o", "n", "e">>), Sp1, RLit(<<"w", "i", "t",
        "h">>)>>)>>), Sp1, RGrp(Dots)>>)
    \* ^task\s+(.+?)\s+ho\s+gaya
    , RCat(<<RBol, RLit(<<"t", "a", "s", "k">>), Sp1, RGrp(DotsLazy), Sp1,
        RLit(<<"h", "o">>), Sp1, RLit(<<"g", "a", "y", "a">>)>>)
    \* ^(.+?)\s+complete\s+kar[o]?
    , RCat(<<RBol, RGrp(DotsLazy), Sp1, RLit(<<"c", "o", "m", "p", "l", "e",
        "t", "e">>), Sp1, RLit(<<"k", "a", "r">>), ROpt(RLit(<<"o">>))>>)
    >>

\* Patterns for DELETE task
delete_patterns ==
    \* ^delete\s+(?:the\s+)?(?:task\s+)?(.+)
    << RCat(<<RBol, RLit(<<"d", "e", "l", "e", "t", "e">>), Sp1,
        ROpt(RCat(<<RLit(<<"t", "h", "e">>), Sp1>>)), ROpt(RCat(<<RLit(<<"t",
        "a", "s", "k">>), Sp1>>)), RGrp(Dots)>>)
    \* ^remove\s+(?:the\s+)?(?:task\s+)?(.+)
    , RCat(<<RBol, RLit(<<"r", "e", "m", "o", "v", "e">>), Sp1,
        ROpt(RCat(<<RLit(<<"t", "h", "e">>), Sp1>>)), ROpt(RCat(<<RLit(<<"t",
        "a", "s", "k">>), Sp1>>)), RGrp(Dots)>>)
    \* ^cancel\s+(?:the\s+)?(?:task\s+)?(.+)
    , RCat(<<RBol, RLit(<<"c", "a", "n", "c", "e", "l">>), Sp1,
        ROpt(RCat(<<RLit(<<"t", "h", "e">>), Sp1>>)), ROpt(RCat(<<RLit(<<"t",
        "a", "s", "k">>), Sp1>>)), RGrp(Dots)>>)
    \* ^(?:get\s+rid\s+of|scratch)\s+(.+)
    , RCat(<<RBol, RAlt(<<RCat(<<RLit(<<"g", "e", "t">>), Sp1, RLit(<<"r", "i",
        "d">>), Sp1, RLit(<<"o", "f">>)>>), RLit(<<"s", "c", "r", "a", "t", "c",
        "h">>)>>), Sp1, RGrp(Dots)>>)
    \* ^task\s+(.+?)\s+(?:delete|hata)\s*(?:kar[o]?|do)?
    , RCat(<<RBol, RLit(<<"t", "a", "s", "k">>), Sp1, RGrp(DotsLazy), Sp1,
        RAlt(<<RLit(<<"d", "e", "l", "e", "t", "e">>), RLit(<<"h", "a", "t",
        "a">>)>>), Sp0, ROpt(RAlt(<<RCat(<<RLit(<<"k", "a", "r">>),
        ROpt(RLit(<<"o">>))>>), RLit(<<"d", "o">>)>>))>>)
    \* ^(.+?)\s+(?:delete|hata)\s+kar[o]?
    , RCat(<<RBol, RGrp(DotsLazy), Sp1, RAlt(<<RLit(<<"d", "e", "l", "e", "t",
        "e">>), RLit(<<"h", "a", "t", "a">>)>>), Sp1, RLit(<<"k", "a", "r">>),
        ROpt(RLit(<<"o">>))>>)
    >>

\* Patterns for ANALYTICS
analytics_patterns ==
    \* ^(?:show\s+)?(?:my\s+)?(?:stats|statistics|analytics|progress)
    << RCat(<<RBol, ROpt(RCat(<<RLit(<<"s", "h", "o", "w">>), Sp1>>)),
        ROpt(RCat(<<RLit(<<"m", "y">>), Sp1>>)), RAlt(<<RLit(<<"s", "t", "a",
        "t", "s">>), RLit(<<"s", "t", "a", "t", "i", "s", "t", "i", "c", "s">>),
        RLit(<<"a", "n", "a", "l", "y", "t", "i", "c", "s">>), RLit(<<"p", "r",
        "o", "g", "r", "e", "s", "s">>)>>)>>)
    \* ^how\s+am\s+i\s+doing
    , RCat(<<RBol, RLit(<<"h", "o", "w">>), Sp1, RLit(<<"a", "m">>), Sp1,
        RLit(<<"i">>), Sp1, RLit(<<"d", "o", "i", "n", "g">>)>>)
    \* ^(?:kitne|how\s+many)\s+tasks?\s+(?:pending|done|completed)
    , RCat(<<RBol, RAlt(<<RLit(<<"k", "i", "t", "n", "e">>), RCat(<<RLit(<<"h",
        "o", "w">>), Sp1, RLit(<<"m", "a", "n", "y">>)>>)>>), Sp1, RLit(<<"t",
        "a", "s", "k">>), ROpt(RLit(<<"s">>)), Sp1, RAlt(<<RLit(<<"p", "e", "n",
        "d", "i", "n", "g">>), RLit(<<"d", "o", "n", "e">>), RLit(<<"c", "o",
        "m", "p", "l", "e", "t", "e", "d">>)>>)>>)
    \* ^mera\s+progress
    , RCat(<<RBol, RLit(<<"m", "e", "r", "a">>), Sp1, RLit(<<"p", "r", "o",
        "g", "r", "e", "s", "s">>)>>)
    >>

\* \s+to\s+my\s+list\.?$
TO_MY_LIST ==
    RCat(<<Sp1, RLit(<<"t", "o">>), Sp1, RLit(<<"m", "y">>), Sp1, RLit(<<"l",
        "i", "s", "t">>), ROpt(RLit(<<".">>)), REol>>)

\* every\s+(day|daily)
EVERY_DAY ==
    RCat(<<RLit(<<"e", "v", "e", "r", "y">>), Sp1, RGrp(RCat(<<RLit(<<"d",
        "a">>), RAlt(<<RLit(<<"y">>), RLit(<<"i", "l", "y">>)>>)>>))>>)

\* every\s+(week|monday|tuesday|wednesday|thursday|friday|saturday|sunday)
EVERY_WEEK ==
    RCat(<<RLit(<<"e", "v", "e", "r", "y">>), Sp1, RGrp(RAlt(<<RLit(<<"w", "e",
        "e", "k">>), RLit(<<"m", "o", "n", "d", "a", "y">>), RLit(<<"t", "u",
        "e", "s", "d", "a", "y">>), RLit(<<"w", "e", "d", "n", "e", "s", "d",
        "a", "y">>), RLit(<<"t", "h", "u", "r", "s", "d", "a", "y">>),
        RLit(<<"f", "r", "i", "d", "a", "y">>), RLit(<<"s", "a", "t", "u", "r",
        "d", "a", "y">>), RLit(<<"s", "u", "n", "d", "a", "y">>)>>))>>)

\* every\s+month
EVERY_MONTH ==
    RCat(<<RLit(<<"e", "v", "e", "r", "y">>), Sp1, RLit(<<"m", "o", "n", "t",
        "h">>)>>)

\* urgent|asap|critical|important|zaroori|zaruri
HIGH_WORDS ==
    RAlt(<<RLit(<<"u", "r", "g", "e", "n", "t">>), RLit(<<"a", "s", "a", "p">>),
        RLit(<<"c", "r", "i", "t", "i", "c", "a", "l">>), RLit(<<"i", "m", "p",
        "o", "r", "t", "a", "n", "t">>), RLit(<<"z", "a", "r", "o", "o", "r",
        "i">>), RLit(<<"z", "a", "r", "u", "r", "i">>)>>)

\* low\s+priority|whenever|no\s+rush
LOW_WORDS ==
    RAlt(<<RCat(<<RLit(<<"l", "o", "w">>), Sp1, RLit(<<"p", "r", "i", "o", "r",
        "i", "t", "y">>)>>), RLit(<<"w", "h", "e", "n", "e", "v", "e", "r">>),
        RCat(<<RLit(<<"n", "o">>), Sp1, RLit(<<"r", "u", "s", "h">>)>>)>>)

\* ^all\s+(?:my\s+)?tasks?$
ALL_TASKS ==
    RCat(<<RBol, RLit(<<"a", "l", "l">>), Sp1, ROpt(RCat(<<RLit(<<"m", "y">>),
        Sp1>>)), RLit(<<"t", "a", "s", "k">>), ROpt(RLit(<<"s">>)), REol>>)

HAR_ROZ == <<"h", "a", "r", " ", "r", "o", "z">>
HAR_HAFTA == <<"h", "a", "r", " ", "h", "a", "f", "t", "a">>
HAR_MAHINA == <<"h", "a", "r", " ", "m", "a", "h", "i", "n", "a">>
PENDING == <<"p", "e", "n", "d", "i", "n", "g">>
INCOMPLETE == <<"i", "n", "c", "o", "m", "p", "l", "e", "t", "e">>
COMPLETED == <<"c", "o", "m", "p", "l", "e", "t", "e", "d">>
DONE == <<"d", "o", "n", "e">>
FINISHED == <<"f", "i", "n", "i", "s", "h", "e", "d">>

\* s contains lit
Contains(s, lit) == FindLit(s, 1, lit) > 0

\* str.strip(chars)
RECURSIVE LeadingIn(_, _, _)
LeadingIn(s, i, set) ==
    IF i <= Len(s) /\ s[i] \in set THEN 1 + LeadingIn(s, i + 1, set) ELSE 0

RECURSIVE TrailingIn(_, _, _)
TrailingIn(s, i, set) ==
    IF i >= 1 /\ s[i] \in set THEN 1 + TrailingIn(s, i - 1, set) ELSE 0

StripChars(s, set) ==
    LET a == LeadingIn(s, 1, set)
        b == TrailingIn(s, Len(s), set)
    IN  IF a >= Len(s) THEN <<>> ELSE SubSeq(s, a + 1, Len(s) - b)

IsCased(c) == c \in Letters \/ c \in UpperLetters

\* str.title()
TitleCase(s) ==
    [k \in 1..Len(s) |->
        IF k = 1 \/ ~IsCased(s[k - 1]) THEN UpperChar(s[k]) ELSE LowerChar(s[k])]

EmptyDict == [k \in {} |-> None]

\* the first pattern of ps[k..] that matches msg, with its match
RECURSIVE FirstMatching(_, _, _)
FirstMatching(ps, k, msg) ==
    IF k > Len(ps) THEN [k |-> 0, m |-> NoMatch]
    ELSE LET m == ReSearch(ps[k], msg)
         IN  IF m.found THEN [k |-> k, m |-> m]
             ELSE FirstMatching(ps, k + 1, msg)

\* the parameters of a detected add_task
AddParams(msg, m) ==
    LET t0 == Strip(Group1(msg, m))
        cut == ReSearch(TO_MY_LIST, t0)
        t1 == IF cut.found THEN SubSeq(t0, 1, cut.start - 1) ELSE t0
        title == StripChars(t1, {".", ",", "!", "?"})
        recurrence ==
            IF ReSearch(EVERY_DAY, msg).found \/ Contains(msg, HAR_ROZ)
            THEN [recurrence_pattern |-> "daily"]
            ELSE IF ReSearch(EVERY_WEEK, msg).found \/ Contains(msg, HAR_HAFTA)
            THEN [recurrence_pattern |-> "weekly"]
            ELSE IF ReSearch(EVERY_MONTH, msg).found \/ Contains(msg, HAR_MAHINA)
            THEN [recurrence_pattern |-> "monthly"]
            ELSE EmptyDict
        priority ==
            IF ReSearch(HIGH_WORDS, msg).found THEN [priority |-> "high"]
            ELSE IF ReSearch(LOW_WORDS, msg).found THEN [priority |-> "low"]
            ELSE EmptyDict
    IN  [title |-> IF Len(title) < 50 THEN TitleCase(title) ELSE title]
            @@ recurrence @@ priority

ListParams(msg) ==
    IF Contains(msg, PENDING) \/ Contains(msg, INCOMPLETE)
    THEN [status |-> "pending"]
    ELSE IF Contains(msg, COMPLETED) \/ Contains(msg, DONE) \/ Contains(msg, FINISHED)
    THEN [status |-> "completed"]
    ELSE EmptyDict

_detect_intent(message) ==
    LET msg == Strip(Lower(message))
        a == FirstMatching(add_patterns, 1, msg)
        l == FirstMatching(list_patterns, 1, msg)
        c == FirstMatching(complete_patterns, 1, msg)
        d == FirstMatching(delete_patterns, 1, msg)
        y == FirstMatching(analytics_patterns, 1, msg)
    IN  IF a.k > 0 THEN [tool |-> "add_task", params |-> AddParams(msg, a.m)]
        ELSE IF l.k > 0 THEN [tool |-> "list_tasks", params |-> ListParams(msg)]
        ELSE IF c.k > 0
        THEN [tool |-> "complete_task",
              params |-> [task_ref |-> Strip(Group1(msg, c.m))]]
        ELSE IF d.k > 0
        THEN LET task_ref == Strip(Group1(msg, d.m))
             IN  IF ReSearch(ALL_TASKS, task_ref).found
                 THEN [tool |-> "delete_all", params |-> EmptyDict]
                 ELSE [tool |-> "delete_task", params |-> [task_ref |-> task_ref]]
        ELSE IF y.k > 0 THEN [tool |-> "get_analytics", params |-> EmptyDict]
        ELSE [tool |-> None, params |-> EmptyDict]


(***************************************************************************)
(* AgentService._sanitize_response                                         *)
(***************************************************************************)
SanitizePaired(content) ==
    SubPaired(SubPaired(SubPaired(content, 1, "tool_call"), 1, "function"),
              1, "parameter")

SanitizeStray(content) ==
    SubStrayTag(SubStrayTag(SubStrayToolCall(content, 1), 1, FUNC_BARE, FUNC_CLOSE_BARE),
                1, PARAM_BARE, PARAM_CLOSE_BARE)

\* the markup removed, the whitespace left as it was
_sanitize_response_keeps_whitespace(content) ==
    IF content = <<>> THEN <<>>
    ELSE SanitizeStray(SanitizePaired(content))

_sanitize_response(content) ==
    IF content = <<>> THEN <<>>
    ELSE Strip(SubBlankLines(SanitizeStray(SanitizePaired(content)), 1))

\* some pseudo-call markup token occurs in s
HasMarkup(s) ==
    \E i \in 1..Len(s) :
        \/ Lit(s, i, TOOL_OPEN)
        \/ Lit(s, i, TOOL_CLOSE)
        \/ OpenTagLen(s, i, FUNC_EQ) > 0
        \/ Lit(s, i, FUNC_CLOSE)
        \/ OpenTagLen(s, i, PARAM_EQ) > 0
        \/ Lit(s, i, PARAM_CLOSE)

(***************************************************************************)
(* AgentService._parse_text_tool_calls                                     *)
(***************************************************************************)
\* the names the model knows as strings, by their characters
KnownNames ==
    {"add_task", "list_tasks", "complete_task", "delete_task", "get_analytics",
     "add_comment", "title", "task_id", "status", "content", "user_id"}

NameChars ==
    [n \in KnownNames |->
        CASE n = "add_task" -> <<"a", "d", "d", "_", "t", "a", "s", "k">>
          [] n = "list_tasks" -> <<"l", "i", "s", "t", "_", "t", "a", "s", "k", "s">>
          [] n = "complete_task" ->
                <<"c", "o", "m", "p", "l", "e", "t", "e", "_", "t", "a", "s", "k">>
          [] n = "delete_task" -> <<"d", "e", "l", "e", "t", "e", "_", "t", "a", "s", "k">>
          [] n = "get_analytics" ->
                <<"g", "e", "t", "_", "a", "n", "a", "l", "y", "t", "i", "c", "s">>
          [] n = "add_comment" -> <<"a", "d", "d", "_", "c", "o", "m", "m", "e", "n", "t">>
          [] n = "title" -> <<"t", "i", "t", "l", "e">>
          [] n = "task_id" -> <<"t", "a", "s", "k", "_", "i", "d">>
          [] n = "status" -> <<"s", "t", "a", "t", "u", "s">>
          [] n = "content" -> <<"c", "o", "n", "t", "e", "n", "t">>
          [] n = "user_id" -> <<"u", "s", "e", "r", "_", "i", "d">>]

\* the string spelled by cs; any other spelling is one unknown name
NameOf(cs) ==
    IF \E n \in KnownNames : NameChars[n] = cs
    THEN CHOOSE n \in KnownNames : NameChars[n] = cs
    ELSE "unknown_name"

\* length of the longest run of [^<] starting at i
RECURSIVE NotLtRun(_, _)
NotLtRun(s, i) ==
    IF i <= Len(s) /\ s[i] # "<" THEN 1 + NotLtRun(s, i + 1) ELSE 0

\* re.finditer(r'<parameter=(\w+)>([^<]*)</parameter>', body) from i on,
\* folded into the params dict (a later key replaces an earlier one)
RECURSIVE ParseParams(_, _, _)
ParseParams(body, i, params) ==
    IF i > Len(body) THEN params
    ELSE LET o == OpenTagLen(body, i, PARAM_EQ)
             r == IF o > 0 THEN NotLtRun(body, i + o) ELSE 0
             ok == o > 0 /\ Lit(body, i + o + r, PARAM_CLOSE)
             key == NameOf(SubSeq(body, i + Len(PARAM_EQ), i + o - 2))
             value == Strip(SubSeq(body, i + o, i + o + r - 1))
         IN  IF ok
             THEN ParseParams(body, i + o + r + Len(PARAM_CLOSE),
                              (key :> value) @@ params)
             ELSE ParseParams(body, i + 1, params)

\* re.finditer(r'<function=(\w+)>(.*?)</function>', content, re.DOTALL) from i on
RECURSIVE ParseFunctions(_, _)
ParseFunctions(content, i) ==
    IF i > Len(content) THEN <<>>
    ELSE LET o == OpenTagLen(content, i, FUNC_EQ)
             c == IF o > 0 THEN FindLit(content, i + o, FUNC_CLOSE) ELSE 0
         IN  IF o > 0 /\ c > 0
             THEN <<[name |-> NameOf(SubSeq(content, i + Len(FUNC_EQ), i + o - 2)),
                     arguments |-> ParseParams(SubSeq(content, i + o, c - 1), 1,
                                               EmptyDict)]>>
                  \o ParseFunctions(content, c + Len(FUNC_CLOSE))
             ELSE ParseFunctions(content, i + 1)

\* the recovered calls; <<>> stands for None (an empty list is returned as None)
_parse_text_tool_calls(content) ==
    IF content = <<>> THEN <<>>
    ELSE IF ~Contains(content, TOOL_OPEN) /\ ~Contains(content, FUNC_EQ) THEN <<>>
    ELSE ParseFunctions(content, 1)

(***************************************************************************)
(* The task store and the tool handlers (src/mcp/tools).  A task is        *)
(* [id, title, completed, due_date, recurrence_pattern,                    *)
(* recurrence_end_date, parent_task_id]; ids are handed out in creation    *)
(* order, so created_at orders as id does.  A due_date, recurrence_end_date *)
(* or parent_task_id of 0 stands for NULL.                                 *)
(***************************************************************************)
\* ids the store can ever hand out
MaxTasks == 3

\* the day datetime.utcnow() falls on
NowDay == 1

DigitSeq == <<"1", "2", "3", "4", "5", "6", "7", "8", "9">>

\* str(task.id)
IdText(id) == <<DigitSeq[id]>>

\* uuid.UUID(text): the id, or 0 for the ValueError
ParseUUID(text) ==
    IF \E id \in 1..Len(DigitSeq) : IdText(id) = text
    THEN CHOOSE id \in 1..Len(DigitSeq) : IdText(id) = text
    ELSE 0

TaskById(store, id) == CHOOSE t \in store : t.id = id

HasTask(store, id) == \E t \in store : t.id = id

\* the two ways a call ends: an exception with its str(e), or a value returned
\* (with the store as the handler left it)
Raise(text) == [raised |-> TRUE, text |-> text]
Return(store, value) == [raised |-> FALSE, store |-> store, value |-> value]

PH_NOT_FOUND_1 == "Task with ID "
PH_NOT_FOUND_2 == " not found. Would you like to see your task list?"
PH_INVALID_ID == "Invalid task ID format: "

InvalidTaskId(task_id) ==
    [error |-> "invalid_task_id", message |-> <<PH_INVALID_ID>> \o task_id]

TaskNotFound(task_id) ==
    [error |-> "task_not_found",
     message |-> <<PH_NOT_FOUND_1>> \o task_id \o <<PH_NOT_FOUND_2>>]

ValidRecurrence == {"none", "daily", "weekly", "monthly"}

add_task_handler(store, next_id, kw) ==
    IF next_id > MaxTasks THEN Raise(<<"database error">>)
    ELSE LET rec == IF "recurrence_pattern" \in DOMAIN kw
                       /\ kw.recurrence_pattern \in ValidRecurrence
                    THEN kw.recurrence_pattern ELSE "none"
             task == [id |-> next_id, title |-> kw.title, completed |-> FALSE,
                      due_date |-> 0, recurrence_pattern |-> rec,
                      recurrence_end_date |-> 0, parent_task_id |-> 0]
         IN  Return(store \cup {task},
                    [task_id |-> IdText(next_id), status |-> "created",
                     title |-> kw.title, recurrence_pattern |-> rec])

\* ORDER BY created_at DESC alone
ListedBefore_newest_first(a, b) == a.id > b.id

\* ORDER BY completed ASC, due_date ASC NULLS LAST, created_at DESC
ListedBefore(a, b) ==
    IF a.completed # b.completed THEN ~a.completed
    ELSE IF a.due_date # b.due_date
    THEN a.due_date # 0 /\ (b.due_date = 0 \/ a.due_date < b.due_date)
    ELSE a.id > b.id

RECURSIVE OrderTasks(_)
OrderTasks(ts) ==
    IF ts = {} THEN <<>>
    ELSE LET first == CHOOSE t \in ts : \A u \in ts \ {t} : ListedBefore(t, u)
         IN  <<first>> \o OrderTasks(ts \ {first})

TaskDict(t) ==
    [id |-> IdText(t.id), title |-> t.title, completed |-> t.completed,
     recurrence_pattern |-> t.recurrence_pattern]

list_tasks_handler(store, kw) ==
    LET status == IF "status" \in DOMAIN kw THEN kw.status ELSE "all"
        sel == {t \in store :
                    CASE status = "pending" -> ~t.completed
                      [] status = "completed" -> t.completed
                      [] OTHER -> TRUE}
        ordered == OrderTasks(sel)
        task_list == [k \in 1..Len(ordered) |-> TaskDict(ordered[k])]
    IN  Return(store, [tasks |-> task_list, count |-> Len(task_list)])

(***************************************************************************)
(* The calendar.  A datetime is the record of its year, month, day, hour   *)
(* and minute.  The due dates of the store are whole days, counted from    *)
(* 2024-01-01, which is day 1.                                             *)
(***************************************************************************)
\* calendar.monthrange(year, month)[1]
IsLeap(year) == year % 4 = 0 /\ (year % 100 # 0 \/ year % 400 = 0)

monthrange(year, month) ==
    IF month = 2 THEN (IF IsLeap(year) THEN 29 ELSE 28)
    ELSE IF month \in {4, 6, 9, 11} THEN 30
    ELSE 31

RECURSIVE DaysBeforeMonth(_, _)
DaysBeforeMonth(year, month) ==
    IF month = 1 THEN 0
    ELSE DaysBeforeMonth(year, month - 1) + monthrange(year, month - 1)

\* datetime.toordinal(): the day number in the proleptic Gregorian calendar
toordinal(d) ==
    LET y == d.year - 1
    IN y * 365 + (y \div 4) - (y \div 100) + (y \div 400)
         + DaysBeforeMonth(d.year, d.month) + d.day

\* datetime.weekday(): Monday is 0, Sunday is 6
weekday(d) == (toordinal(d) + 6) % 7

Tomorrow(d) ==
    IF d.day < monthrange(d.year, d.month) THEN [d EXCEPT !.day = @ + 1]
    ELSE IF d.month < 12 THEN [d EXCEPT !.month = @ + 1, !.day = 1]
    ELSE [d EXCEPT !.year = @ + 1, !.month = 1, !.day = 1]

Yesterday(d) ==
    IF d.day > 1 THEN [d EXCEPT !.day = @ - 1]
    ELSE IF d.month > 1
    THEN [d EXCEPT !.month = @ - 1, !.day = monthrange(d.year, d.month - 1)]
    ELSE [d EXCEPT !.year = @ - 1, !.month = 12, !.day = 31]

\* d + timedelta(days=days)
RECURSIVE timedelta(_, _)
timedelta(d, days) ==
    IF days = 0 THEN d
    ELSE IF days > 0 THEN timedelta(Tomorrow(d), days - 1)
    ELSE timedelta(Yesterday(d), days + 1)

\* datetime(year, month, day) raises ValueError unless the day exists
IsDate(year, month, day) ==
    /\ year \in 1..9999
    /\ month \in 1..12
    /\ day \in 1..monthrange(year, month)

datetime(year, month, day) ==
    [year |-> year, month |-> month, day |-> day, hour |-> 0, minute |-> 0]

Min2(a, b) == IF a < b THEN a ELSE b

DayOne == datetime(2024, 1, 1)

\* the date a day of the store falls on, and the day of a date
RECURSIVE DateFrom(_, _)
DateFrom(first, days) ==
    LET last == monthrange(first.year, first.month)
    IN  IF days < last THEN [first EXCEPT !.day = days + 1]
        ELSE DateFrom(IF first.month = 12
                      THEN [first EXCEPT !.year = @ + 1, !.month = 1]
                      ELSE [first EXCEPT !.month = @ + 1], days - last)

DateOfDay(day) == DateFrom(DayOne, day - 1)
DayOfDate(d) == toordinal(d) - toordinal(DayOne) + 1

\* the first day of the month after that of d
NextMonth(d) ==
    IF d.month = 12 THEN [d EXCEPT !.year = @ + 1, !.month = 1, !.day = 1]
    ELSE [d EXCEPT !.month = @ + 1, !.day = 1]

\* the given day of the month of first, or its last day when it is shorter
OnDay(first, day) ==
    [first EXCEPT !.day = Min2(day, monthrange(first.year, first.month))]

\* current_due + relativedelta(months=1): the same day of the next month, or
\* the last day of that month
relativedelta(current_due) ==
    DayOfDate(OnDay(NextMonth(DateOfDay(current_due)), DateOfDay(current_due).day))

\* the next due date as it would be if a month were thirty days
calculate_next_due_date_thirty_days(current_due, pattern) ==
    CASE pattern = "daily" -> current_due + 1
      [] pattern = "weekly" -> current_due + 7
      [] pattern = "monthly" -> current_due + 30
      [] OTHER -> current_due

calculate_next_due_date(current_due, pattern) ==
    CASE pattern = "daily" -> current_due + 1
      [] pattern = "weekly" -> current_due + 7
      [] pattern = "monthly" -> relativedelta(current_due)
      [] OTHER -> current_due

complete_task_handler(store, next_id, kw) ==
    LET id == ParseUUID(kw.task_id)
    IN  IF id = 0 THEN Return(store, InvalidTaskId(kw.task_id))
        ELSE IF ~HasTask(store, id) THEN Return(store, TaskNotFound(kw.task_id))
        ELSE LET task == TaskById(store, id)
                 done == [task EXCEPT !.completed = TRUE]
                 rest == (store \ {task}) \cup {done}
                 response == [task_id |-> IdText(id), status |-> "completed",
                              title |-> task.title]
                 next_due == calculate_next_due_date(
                                 IF task.due_date # 0 THEN task.due_date ELSE NowDay,
                                 task.recurrence_pattern)
                 should_create_next ==
                     ~(task.recurrence_end_date # 0
                         /\ next_due > task.recurrence_end_date)
                 next_task == [id |-> next_id, title |-> task.title,
                               completed |-> FALSE, due_date |-> next_due,
                               recurrence_pattern |-> task.recurrence_pattern,
                               recurrence_end_date |-> task.recurrence_end_date,
                               parent_task_id |-> task.id]
             IN  IF task.completed
                 THEN Return(store, [task_id |-> IdText(id),
                                     status |-> "already_completed",
                                     title |-> task.title])
                 ELSE IF task.recurrence_pattern = "none" THEN Return(rest, response)
                 ELSE IF ~should_create_next THEN Return(rest, response)
                 ELSE IF next_id > MaxTasks THEN Raise(<<"database error">>)
                 ELSE Return(rest \cup {next_task},
                             response @@ [next_task |->
                                 [task_id |-> IdText(next_id), title |-> task.title]])

delete_task_handler(store, kw) ==
    LET id == ParseUUID(kw.task_id)
    IN  IF id = 0 THEN Return(store, InvalidTaskId(kw.task_id))
        ELSE IF ~HasTask(store, id) THEN Return(store, TaskNotFound(kw.task_id))
        ELSE LET task == TaskById(store, id)
             IN  Return(store \ {task},
                        [task_id |-> IdText(id), status |-> "deleted",
                         title |-> task.title])

get_analytics_handler(store) ==
    LET total == Cardinality(store)
        completed == Cardinality({t \in store : t.completed})
    IN  Return(store,
               [summary |-> [total_tasks |-> total, completed_count |-> completed,
                             pending_count |-> total - completed,
                             completion_rate |->
                                 IF total > 0
                                 THEN (completed * 200 + total) \div (2 * total)
                                 ELSE 0]])

add_comment_handler(store, kw) ==
    IF Strip(kw.content) = <<>>
    THEN Return(store, [error |-> "Comment content cannot be empty"])
    ELSE IF ParseUUID(kw.task_id) = 0
    THEN Raise(<<"badly formed hexadecimal UUID string">>)
    ELSE IF ~HasTask(store, ParseUUID(kw.task_id))
    THEN Return(store, [error |-> "Task not found", task_id |-> kw.task_id])
    ELSE Return(store, [status |-> "created", task_id |-> kw.task_id,
                        task_title |-> TaskById(store, ParseUUID(kw.task_id)).title])

\* the keyword parameters of each handler: those without a default, and all
RequiredKw ==
    [add_task |-> {"user_id", "session", "title"},
     list_tasks |-> {"user_id", "session"},
     complete_task |-> {"user_id", "session", "task_id"},
     delete_task |-> {"user_id", "session", "task_id"},
     get_analytics |-> {"user_id", "session"},
     add_comment |-> {"user_id", "session", "task_id", "content"}]

AllowedKw ==
    [add_task |-> {"user_id", "session", "title", "recurrence_pattern", "priority"},
     list_tasks |-> {"user_id", "session", "status"},
     complete_task |-> {"user_id", "session", "task_id"},
     delete_task |-> {"user_id", "session", "task_id"},
     get_analytics |-> {"user_id", "session"},
     add_comment |-> {"user_id", "session", "task_id", "content"}]

\* handler(**kwargs): the binding of the keywords, then the handler's body;
\* fault is the storage failing under the handler
CallHandler(handler, store, next_id, kw, fault) ==
    IF ~(RequiredKw[handler] \subseteq DOMAIN kw)
    THEN Raise(<<"handler() missing required keyword argument">>)
    ELSE IF ~(DOMAIN kw \subseteq AllowedKw[handler])
    THEN Raise(<<"handler() got an unexpected keyword argument">>)
    ELSE IF fault THEN Raise(<<"database error">>)
    ELSE CASE handler = "add_task" -> add_task_handler(store, next_id, kw)
           [] handler = "list_tasks" -> list_tasks_handler(store, kw)
           [] handler = "complete_task" -> complete_task_handler(store, next_id, kw)
           [] handler = "delete_task" -> delete_task_handler(store, kw)
           [] handler = "get_analytics" -> get_analytics_handler(store)
           [] handler = "add_comment" -> add_comment_handler(store, kw)

\* MCPToolRegistry.execute_tool
execute_tool(tools, name, store, next_id, kw, fault) ==
    IF name \notin DOMAIN tools
    THEN Raise(<<"Tool '", name, "' ", "n", "o", "t", " ", "f", "o", "u", "n", "d">>)
    ELSE CallHandler(tools[name].handler, store, next_id, kw, fault)


(***************************************************************************)
(* AgentService._generate_natural_response                                 *)
(***************************************************************************)
\* dict.get(key, default)
Get(d, key, default) == IF key \in DOMAIN d THEN d[key] ELSE default

\* str(n)
DigitChar(d) == IF d = 0 THEN "0" ELSE DigitSeq[d]

RECURSIVE NumText(_)
NumText(n) ==
    IF n < 10 THEN <<DigitChar(n)>>
    ELSE NumText(n \div 10) \o <<DigitChar(n % 10)>>

\* "\n".join / " ".join
RECURSIVE Join(_, _)
Join(parts, sep) ==
    IF parts = <<>> THEN <<>>
    ELSE IF Len(parts) = 1 THEN parts[1]
    ELSE parts[1] \o sep \o Join(Tail(parts), sep)

TaskLine(i, task) ==
    NumText(i) \o <<".", " ">> \o Get(task, "title", <<"Untitled">>)
        \o <<" (", Get(task, "priority", "medium"), ", ">>
        \o <<IF Get(task, "completed", FALSE) THEN "completed" ELSE "pending", ")">>

\* the responses one entry of tool_calls_results adds, without the error test
TemplateFor(tool, result) ==
    CASE tool = "add_task" ->
            LET title == Get(result, "title", <<"your task">>)
                recurrence == Get(result, "recurrence_pattern", "none")
            IN  IF recurrence # "none"
                THEN << <<"Done! I've added '">> \o title
                        \o <<"' as a ", recurrence, " recurring task.">> >>
                ELSE << <<"Done! I've added '">> \o title \o <<"' to your list.">> >>
      [] tool = "list_tasks" ->
            LET tasks == Get(result, "tasks", <<>>)
                count == Get(result, "count", Len(tasks))
                shown == IF Len(tasks) > 10 THEN SubSeq(tasks, 1, 10) ELSE tasks
            IN  IF count = 0
                THEN << <<"You don't have any tasks right now.">> >>
                ELSE << <<"You have ">> \o NumText(count) \o <<" task(s):", "\n">>
                        \o Join([i \in 1..Len(shown) |-> TaskLine(i, shown[i])],
                                <<"\n">>) >>
      [] tool = "complete_task" ->
            << <<"Marked '">> \o Get(result, "title", <<"task">>)
               \o <<"' as complete!">> >>
            \o (IF "next_task" \in DOMAIN result
                THEN << <<"Created next recurring task: '">>
                        \o Get(result.next_task, "title", <<>>) \o <<"'">> >>
                ELSE <<>>)
      [] tool = "delete_task" ->
            IF "error" \in DOMAIN result
            THEN << <<"Couldn't delete: ">>
                    \o Get(result, "message", <<"Task not found">>) >>
            ELSE << <<"Deleted '">> \o Get(result, "title", <<"task">>)
                    \o <<"' from your list.">> >>
      [] tool = "update_task" ->
            << <<"Updated '">> \o Get(result, "title", <<"task">>) \o <<"'.">> >>
      [] tool = "get_analytics" ->
            LET summary == Get(result, "summary", EmptyDict)
            IN  << <<"You have ">> \o NumText(Get(summary, "total_tasks", 0))
                   \o <<" total tasks: ">>
                   \o NumText(Get(summary, "completed_count", 0)) \o <<" completed, ">>
                   \o NumText(Get(summary, "pending_count", 0))
                   \o <<" pending. Completion rate: ">>
                   \o NumText(Get(summary, "completion_rate", 0)) \o <<"%">> >>
      [] OTHER -> <<>>

\* the tools the templates cover
TemplatedTools ==
    {"add_task", "list_tasks", "complete_task", "delete_task", "update_task",
     "get_analytics"}

ResponsesForEntry(tc) ==
    IF "error" \in DOMAIN tc /\ tc.error # <<>>
    THEN << <<"Sorry, there was an error: ">> \o tc.error >>
    ELSE TemplateFor(tc.tool, Get(tc, "result", EmptyDict))

RECURSIVE AllResponses(_, _)
AllResponses(tool_calls_results, k) ==
    IF k > Len(tool_calls_results) THEN <<>>
    ELSE ResponsesForEntry(tool_calls_results[k])
            \o AllResponses(tool_calls_results, k + 1)

_generate_natural_response(tool_calls_results) ==
    LET responses == AllResponses(tool_calls_results, 1)
    IN  IF responses # <<>> THEN Join(responses, <<" ">>) ELSE <<"Done!">>

(***************************************************************************)
(* State.                                                                  *)
(***************************************************************************)
VARIABLES
    _tools,              \* MCPToolRegistry._tools: name -> definition
    registrations,       \* history: the register calls made so far, in order
    looked_up,           \* what the last get_tool call returned
    store,               \* the tasks table, rows of the calling user
    next_id,             \* the id the next inserted task gets
    pc,                  \* where process_message stands
    message,             \* the user's message
    assistant_message,   \* response.choices[0].message of the first completion
    local,               \* the locals of process_message
    tool_calls_results,  \* the list process_message collects
    outcome,             \* how process_message ended
    invoked,             \* history: the execute_tool calls made, with their tier
    model_calls,         \* history: completions requested
    other_deletes,       \* history: deletions committed by other turns
    _contexts,           \* ContextManager._contexts, in the order of the OrderedDict
    clock,               \* datetime.now(), in hours
    resolved,            \* the resolve_task_reference call just made and what it returned
    recorded,            \* history: user -> the mentions recorded for it, in order
    access_order,        \* history: the users, least recently accessed first
    access_time,         \* history: user -> the hour of its last access, -1 for none
    dropped,             \* history: the contexts the last call evicted and purged
    alone,               \* user -> a tracker that received that user's calls only
    tracker_calls,       \* history: the number of calls made on the tracker
    subject,             \* the text a pure function is applied to
    applied,             \* what each function applied so far returned
    hash_seed,           \* the salt of str hashing, drawn when the process starts
    today,               \* datetime.now() of the suggestion service, in days
    suggested,           \* history: the suggestion calls made, with what they returned
    _tasks,              \* TaskManager._tasks: id -> the Task object
    _task_list,          \* TaskManager._task_list: the Task objects
    _next_id,            \* TaskManager._next_id
    heap,                \* the Task objects made so far, by address
    issued,              \* history: the ids add_task returned, in order
    raised               \* what the last TaskManager call raised

regVars == <<_tools, registrations, looked_up>>

turnVars == <<store, next_id, pc, message, assistant_message, local, tool_calls_results, outcome,
              invoked, model_calls, other_deletes>>

ctxVars == <<_contexts, clock, resolved, recorded, access_order, access_time, dropped, alone,
             tracker_calls>>

fnVars == <<subject, applied>>

sugVars == <<hash_seed, today, suggested>>

tmVars == <<_tasks, _task_list, _next_id, heap, issued, raised>>

vars == <<_tools, registrations, looked_up, store, next_id, pc, message,
          assistant_message, local, tool_calls_results, outcome, invoked,
          model_calls, other_deletes, _contexts, clock, resolved, recorded,
          access_order, access_time, dropped, alone,
          tracker_calls, subject, applied, hash_seed, today, suggested,
          _tasks, _task_list, _next_id, heap, issued, raised>>

\* the users of the tracker
Users == {"u1", "u2", "u3"}

\* Optional[TaskReference]: the None a lookup returns
NoReference == [task_id |-> None]

\* the last call on the tracker was no resolve_task_reference
NotResolving ==
    [user_id |-> None, text |-> <<>>, result |-> NoReference, last_access |-> -1,
     hour |-> 0]

\* no call made yet on a tracker as constructed
NoDrop == [evicted |-> <<>>, purged |-> {}, by |-> None, overflowed |-> FALSE]

NoTracker ==
    /\ _contexts = <<>>
    /\ clock = 0
    /\ resolved = NotResolving
    /\ recorded = [u \in Users |-> <<>>]
    /\ access_order = <<>>
    /\ access_time = [u \in Users |-> -1]
    /\ dropped = NoDrop
    /\ alone = [u \in Users |-> [contexts |-> <<>>, resolved |-> NoReference]]
    /\ tracker_calls = 0

\* no suggestion asked for
NoSuggestion ==
    /\ hash_seed = 0
    /\ today = 0
    /\ suggested = {}

\* a task manager that received no call
NoManager ==
    /\ _tasks = EmptyDict
    /\ _task_list = <<>>
    /\ _next_id = 1
    /\ heap = <<>>
    /\ issued = <<>>
    /\ raised = None

NoService == NoSuggestion /\ NoManager

\* no function applied
NoApplication ==
    /\ subject = <<>>
    /\ applied = EmptyDict

\* no chat turn running, on an empty tasks table
TurnParked ==
    /\ store = {}
    /\ next_id = 1
    /\ pc = "idle"
    /\ message = <<>>
    /\ assistant_message = [tool_calls |-> <<>>, content |-> <<>>]
    /\ local = EmptyDict
    /\ tool_calls_results = <<>>
    /\ outcome = [kind |-> "none"]
    /\ invoked = <<>>
    /\ model_calls = 0
    /\ other_deletes = <<>>

(***************************************************************************)
(* MCPToolRegistry                                                         *)
(***************************************************************************)
\* longest history of register calls explored
MaxRegs == 3

RegNames == {"add_task", "list_tasks", "complete_task"}
RegDescriptions == {"d1", "d2"}
RegHandlers == {"h1", "h2"}
RegParameters == {"p1"}

\* a register that refuses a name already present
RegisterIfAbsent(tools, name, description, parameters, handler) ==
    IF name \in DOMAIN tools THEN tools
    ELSE [n \in DOMAIN tools \cup {name} |->
            IF n = name
            THEN [name |-> name, description |-> description,
                  parameters |-> parameters, handler |-> handler]
            ELSE tools[n]]

\* self._tools[name] = {...}
RegistryRegister(tools, name, description, parameters, handler) ==
    [n \in DOMAIN tools \cup {name} |->
        IF n = name
        THEN [name |-> name, description |-> description,
              parameters |-> parameters, handler |-> handler]
        ELSE tools[n]]

\* self._tools.get(name)
RegistryGetTool(tools, name) ==
    IF name \in DOMAIN tools THEN tools[name] ELSE None

EmptyRegistry == [n \in {} |-> None]

\* the registry as constructed, no turn running
InitReg ==
    /\ _tools = EmptyRegistry
    /\ registrations = <<>>
    /\ looked_up = None
    /\ TurnParked
    /\ NoTracker
    /\ NoService
    /\ NoApplication

register ==
    /\ Len(registrations) < MaxRegs
    /\ \E name \in RegNames, description \in RegDescriptions,
          parameters \in RegParameters, handler \in RegHandlers :
        /\ _tools' = RegistryRegister(_tools, name, description, parameters, handler)
        /\ registrations' = Append(registrations,
              [name |-> name, description |-> description,
               parameters |-> parameters, handler |-> handler, raised |-> FALSE])
    /\ UNCHANGED <<looked_up, turnVars, ctxVars, fnVars, sugVars, tmVars>>

get_tool ==
    /\ \E name \in RegNames : looked_up' = RegistryGetTool(_tools, name)
    /\ UNCHANGED <<_tools, registrations, turnVars, ctxVars, fnVars, sugVars, tmVars>>

NextReg == register \/ get_tool

SpecReg == InitReg /\ [][NextReg]_vars

\* the register calls of the history that named n
CallsNaming(n) == {i \in 1..Len(registrations) : registrations[i].name = n}

FirstCall(n) == CHOOSE i \in CallsNaming(n) : \A j \in CallsNaming(n) : i <= j

LastCall(n) == CHOOSE i \in CallsNaming(n) : \A j \in CallsNaming(n) : j <= i

DefOf(call) ==
    [name |-> call.name, description |-> call.description,
     parameters |-> call.parameters, handler |-> call.handler]

MaxOtherDeletes == 1

CallerId == <<"caller">>
CallerSession == <<"AsyncSession">>

\* 'rate limit'
RATE_LIMIT ==
    <<"r", "a", "t", "e", " ", "l", "i", "m", "i", "t">>

\* '429'
C429 ==
    <<"4", "2", "9">>

\* 'invalid api key'
INVALID_API_KEY ==
    <<"i", "n", "v", "a", "l", "i", "d", " ", "a", "p", "i", " ", "k", "e",
    "y">>

\* '401'
C401 ==
    <<"4", "0", "1">>

\* 'model'
MODEL ==
    <<"m", "o", "d", "e", "l">>

\* 'not found'
NOT_FOUND ==
    <<"n", "o", "t", " ", "f", "o", "u", "n", "d">>

\* 'unsupported'
UNSUPPORTED ==
    <<"u", "n", "s", "u", "p", "p", "o", "r", "t", "e", "d">>

\* 'Rate limit reached'
ERR_RATE ==
    <<"R", "a", "t", "e", " ", "l", "i", "m", "i", "t", " ", "r", "e", "a", "c",
    "h", "e", "d">>

\* 'Error code: 429'
ERR_429 ==
    <<"E", "r", "r", "o", "r", " ", "c", "o", "d", "e", ":", " ", "4", "2",
    "9">>

\* 'Invalid API key'
ERR_KEY ==
    <<"I", "n", "v", "a", "l", "i", "d", " ", "A", "P", "I", " ", "k", "e",
    "y">>

\* '401 Unauthorized'
ERR_401 ==
    <<"4", "0", "1", " ", "U", "n", "a", "u", "t", "h", "o", "r", "i", "z", "e",
    "d">>

\* 'Model not found'
ERR_MODEL_NF ==
    <<"M", "o", "d", "e", "l", " ", "n", "o", "t", " ", "f", "o", "u", "n",
    "d">>

\* 'model unsupported'
ERR_MODEL_UNS ==
    <<"m", "o", "d", "e", "l", " ", "u", "n", "s", "u", "p", "p", "o", "r", "t",
    "e", "d">>

\* 'Request timed out.'
ERR_TIMEOUT ==
    <<"R", "e", "q", "u", "e", "s", "t", " ", "t", "i", "m", "e", "d", " ", "o",
    "u", "t", ".">>

\* 'model busy'
ERR_MODEL_BUSY ==
    <<"m", "o", "d", "e", "l", " ", "b", "u", "s", "y">>

\* '429 invalid api key'
ERR_BOTH ==
    <<"4", "2", "9", " ", "i", "n", "v", "a", "l", "i", "d", " ", "a", "p", "i",
    " ", "k", "e", "y">>

ProviderErrors ==
    {ERR_RATE, ERR_429, ERR_KEY, ERR_401, ERR_MODEL_NF, ERR_MODEL_UNS, ERR_TIMEOUT,
     ERR_MODEL_BUSY, ERR_BOTH}

\* 'add tea'
MSG_ADD ==
    <<"a", "d", "d", " ", "t", "e", "a">>

\* 'Show my tasks'
MSG_LIST ==
    <<"S", "h", "o", "w", " ", "m", "y", " ", "t", "a", "s", "k", "s">>

\* 'complete milk'
MSG_COMPLETE ==
    <<"c", "o", "m", "p", "l", "e", "t", "e", " ", "m", "i", "l", "k">>

\* 'delete milk'
MSG_DELETE ==
    <<"d", "e", "l", "e", "t", "e", " ", "m", "i", "l", "k">>

\* 'delete all tasks'
MSG_DELETE_ALL ==
    <<"d", "e", "l", "e", "t", "e", " ", "a", "l", "l", " ", "t", "a", "s", "k",
    "s">>

\* 'hello'
MSG_HELLO ==
    <<"h", "e", "l", "l", "o">>

\* 'stats'
MSG_STATS ==
    <<"s", "t", "a", "t", "s">>

Messages ==
    {MSG_ADD, MSG_LIST, MSG_COMPLETE, MSG_DELETE, MSG_DELETE_ALL, MSG_HELLO, MSG_STATS}

\* 'Buy Milk'
TITLE_MILK == <<"B", "u", "y", " ", "M", "i", "l", "k">>

\* 'Tea'
TITLE_TEA == <<"T", "e", "a">>

\* 'Milk Tea'
TITLE_MILK_TEA == <<"M", "i", "l", "k", " ", "T", "e", "a">>

\* 'All set.'
TXT_PLAIN == <<"A", "l", "l", " ", "s", "e", "t", ".">>

\* <function=name><parameter=key>value</parameter></function>
TextCall(name, key, value) ==
    FUNC_EQ \o NameChars[name] \o <<">">> \o PARAM_EQ \o NameChars[key] \o <<">">>
        \o value \o PARAM_CLOSE \o FUNC_CLOSE

TXT_ONE_CALL == TextCall("add_task", "title", TITLE_TEA)

\* two calls in one <tool_call> block, the first with an id that is no UUID
TXT_CALL_AS_OTHER == TextCall("list_tasks", "user_id", <<"o", "t", "h", "e", "r">>)

TXT_TWO_CALLS ==
    TOOL_OPEN \o TextCall("complete_task", "task_id", <<"x">>)
        \o TextCall("add_task", "title", TITLE_TEA) \o TOOL_CLOSE

\* an opening marker with nothing closing it
TXT_UNCLOSED == FUNC_EQ \o NameChars["list_tasks"] \o <<">">>

\* 'ok <tool_<tool_call>call>'
TXT_NESTED ==
    <<"o", "k", " ", "<", "t", "o", "o", "l", "_">> \o TOOL_OPEN
        \o <<"c", "a", "l", "l", ">">>

\* 'Done. <tool_call>x</tool_call>'
TXT_PAIRED ==
    <<"D", "o", "n", "e", ".", " ">> \o TOOL_OPEN \o <<"x">> \o TOOL_CLOSE

\* '2 < 3'
TXT_LESS_THAN ==
    <<"2", " ", "<", " ", "3">>

\* message.content of the first completion when it carries no structured call
FirstContents ==
    {<<>>, TXT_PLAIN, TXT_ONE_CALL, TXT_TWO_CALLS, TXT_UNCLOSED, TXT_NESTED,
     TXT_LESS_THAN, TXT_CALL_AS_OTHER}

\* message.content of the second completion
SecondContents == {<<>>, TXT_PLAIN, TXT_NESTED, TXT_PAIRED}

\* str(e) of the JSONDecodeError json.loads raises
JSON_ERROR == <<"Expecting value: line 1 column 1 (char 0)">>

\* tool_call.function.arguments: a JSON text, kept as the dict it decodes to,
\* or a text json.loads rejects
Json(value) == [ok |-> TRUE, value |-> value]
BadJson == [ok |-> FALSE, value |-> EmptyDict]

Call(name, arguments) == [name |-> name, arguments |-> arguments]

ADD_TEA == Call("add_task", Json([title |-> TITLE_TEA]))
ADD_UNDECODABLE == Call("add_task", BadJson)
LIST_ALL == Call("list_tasks", Json(EmptyDict))
COMPLETE_1 == Call("complete_task", Json([task_id |-> IdText(1)]))
COMPLETE_X == Call("complete_task", Json([task_id |-> <<"x">>]))
DELETE_1 == Call("delete_task", Json([task_id |-> IdText(1)]))
COMMENT_1 == Call("add_comment", Json([task_id |-> IdText(1), content |-> <<"x">>]))
NO_SUCH_TOOL == Call("no_such_tool", Json(EmptyDict))
\* a call whose arguments name another user and another session
OTHER_USER == <<"o", "t", "h", "e", "r">>
LIST_AS_OTHER ==
    Call("list_tasks", Json([user_id |-> OTHER_USER, session |-> <<"x">>]))

\* message.tool_calls of the first completion when it is not empty
CallLists ==
    {<<ADD_TEA>>, <<COMPLETE_1>>, <<COMMENT_1>>, <<ADD_TEA, LIST_ALL>>,
     <<ADD_UNDECODABLE, LIST_ALL>>, <<LIST_ALL, ADD_UNDECODABLE>>,
     <<NO_SUCH_TOOL, ADD_TEA>>, <<COMPLETE_X, ADD_TEA>>, <<DELETE_1, LIST_ALL>>,
     <<LIST_AS_OTHER>>}

PlainTask(id, title) ==
    [id |-> id, title |-> title, completed |-> FALSE, due_date |-> 0,
     recurrence_pattern |-> "none", recurrence_end_date |-> 0,
     parent_task_id |-> 0]

\* a task with a due date
DueTask(id, title, due_date) ==
    [PlainTask(id, title) EXCEPT !.due_date = due_date]

\* a task already completed
DoneTask(id, title) ==
    [PlainTask(id, title) EXCEPT !.completed = TRUE]

InitialStores ==
    {{}, {PlainTask(1, TITLE_MILK)}, {PlainTask(1, TITLE_MILK), PlainTask(2, TITLE_TEA)},
     {PlainTask(1, TITLE_MILK), PlainTask(2, TITLE_MILK_TEA)},
     {DueTask(1, TITLE_MILK, NowDay + 1), PlainTask(2, TITLE_MILK_TEA)},
     {PlainTask(1, TITLE_MILK), DoneTask(2, TITLE_MILK_TEA)}}

\* the register calls the tool modules make when they are imported
StartupCalls ==
    <<[name |-> "add_task", description |-> "d1", parameters |-> "p1",
       handler |-> "add_task", raised |-> FALSE],
      [name |-> "list_tasks", description |-> "d1", parameters |-> "p1",
       handler |-> "list_tasks", raised |-> FALSE],
      [name |-> "complete_task", description |-> "d1", parameters |-> "p1",
       handler |-> "complete_task", raised |-> FALSE],
      [name |-> "delete_task", description |-> "d1", parameters |-> "p1",
       handler |-> "delete_task", raised |-> FALSE],
      [name |-> "get_analytics", description |-> "d1", parameters |-> "p1",
       handler |-> "get_analytics", raised |-> FALSE],
      [name |-> "add_comment", description |-> "d1", parameters |-> "p1",
       handler |-> "add_comment", raised |-> FALSE]>>

RECURSIVE RegisterAll(_, _)
RegisterAll(tools, cs) ==
    IF cs = <<>> THEN tools
    ELSE RegisterAll(RegistryRegister(tools, cs[1].name, cs[1].description,
                                      cs[1].parameters, cs[1].handler), Tail(cs))

\* the locals before the first completion has returned; parsed and detected
\* tell whether _parse_text_tool_calls and _detect_intent have been called,
\* exc_origin which await the exception of the except block came from
NoLocals ==
    [tier |-> 0, calls |-> <<>>, idx |-> 0,
     has_proper_tool_calls |-> FALSE, text_tool_calls |-> <<>>, parsed |-> FALSE,
     detected |-> FALSE, detected_tool |-> None, detected_params |-> EmptyDict,
     matched_task |-> EmptyDict, tasks |-> <<>>, deleted_count |-> 0,
     final_content |-> <<>>, exc_origin |-> None]

NoOutcome == [kind |-> "none"]

IdleTurn ==
    /\ pc = "idle"
    /\ message = <<>>
    /\ assistant_message = [tool_calls |-> <<>>, content |-> <<>>]
    /\ local = NoLocals
    /\ tool_calls_results = <<>>
    /\ outcome = NoOutcome
    /\ invoked = <<>>
    /\ model_calls = 0
    /\ other_deletes = <<>>

Init ==
    /\ registrations = StartupCalls
    /\ _tools = RegisterAll(EmptyRegistry, StartupCalls)
    /\ looked_up = None
    /\ store \in InitialStores
    /\ next_id = MaxTasks
    /\ IdleTurn
    /\ NoTracker
    /\ NoService
    /\ NoApplication

\* 'I'm being rate limited. Please wait a moment and try again.'
MSG_RATE ==
    <<"I", "'", "m", " ", "b", "e", "i", "n", "g", " ", "r", "a", "t", "e",
      " ", "l", "i", "m", "i", "t", "e", "d", ".", " ", "P", "l", "e", "a",
      "s", "e", " ", "w", "a", "i", "t", " ", "a", " ", "m", "o", "m", "e",
      "n", "t", " ", "a", "n", "d", " ", "t", "r", "y", " ", "a", "g", "a",
      "i", "n", ".">>

\* 'There's an issue with the AI configuration. Please contact support.'
MSG_CONFIG ==
    <<"T", "h", "e", "r", "e", "'", "s", " ", "a", "n", " ", "i", "s", "s",
      "u", "e", " ", "w", "i", "t", "h", " ", "t", "h", "e", " ", "A", "I",
      " ", "c", "o", "n", "f", "i", "g", "u", "r", "a", "t", "i", "o", "n",
      ".", " ", "P", "l", "e", "a", "s", "e", " ", "c", "o", "n", "t", "a",
      "c", "t", " ", "s", "u", "p", "p", "o", "r", "t", ".">>

\* 'The AI model is unavailable. Please try again later.'
MSG_MODEL ==
    <<"T", "h", "e", " ", "A", "I", " ", "m", "o", "d", "e", "l", " ", "i",
      "s", " ", "u", "n", "a", "v", "a", "i", "l", "a", "b", "l", "e", ".",
      " ", "P", "l", "e", "a", "s", "e", " ", "t", "r", "y", " ", "a", "g",
      "a", "i", "n", " ", "l", "a", "t", "e", "r", ".">>

\* 'AI service is temporarily unavailable. Please try again later.'
MSG_UNAVAILABLE ==
    <<"A", "I", " ", "s", "e", "r", "v", "i", "c", "e", " ", "i", "s", " ",
      "t", "e", "m", "p", "o", "r", "a", "r", "i", "l", "y", " ", "u", "n",
      "a", "v", "a", "i", "l", "a", "b", "l", "e", ".", " ", "P", "l", "e",
      "a", "s", "e", " ", "t", "r", "y", " ", "a", "g", "a", "i", "n", " ",
      "l", "a", "t", "e", "r", ".">>
MSG_PROCESSED == "I've processed your request. How can I help you further?"
HELP ==
    <<"Hi! I'm your task assistant. I can help you:", "\n",
      "- Add tasks: 'Add a task to buy groceries'", "\n",
      "- View tasks: 'Show my tasks'", "\n",
      "- Complete tasks: 'Mark buy groceries as done'", "\n",
      "- Delete tasks: 'Delete the groceries task'", "\n", "\n",
      "What would you like to do?">>

\* the class the except block puts str(e) in
ErrorClass(text) ==
    LET error_str == Lower(text)
    IN  IF Contains(error_str, RATE_LIMIT) \/ Contains(error_str, C429)
        THEN "rate_limited"
        ELSE IF Contains(error_str, INVALID_API_KEY) \/ Contains(error_str, C401)
        THEN "unauthorized"
        ELSE IF Contains(error_str, MODEL)
                /\ (Contains(error_str, NOT_FOUND) \/ Contains(error_str, UNSUPPORTED))
        THEN "model_unavailable"
        ELSE "unknown"

\* the fixed message of a class; the unknown class has the message of
\* AIServiceUnavailableError
ClassMessage(class) ==
    CASE class = "rate_limited" -> MSG_RATE
      [] class = "unauthorized" -> MSG_CONFIG
      [] class = "model_unavailable" -> MSG_MODEL
      [] OTHER -> MSG_UNAVAILABLE

\* return {"response": ..., "tool_calls": []}
ClassifiedReply(text) ==
    [kind |-> "returned", response |-> ClassMessage(ErrorClass(text)),
     tool_calls |-> <<>>, cause |-> text]

\* an except block that answers with the text of the exception
ExceptOutcomeRaw(text) ==
    [kind |-> "returned", response |-> text, tool_calls |-> <<>>, cause |-> text]

\* an except block that lets an unclassified exception through as it is
ExceptOutcomeThrough(text) ==
    IF ErrorClass(text) = "unknown"
    THEN [kind |-> "raised", exc |-> "Exception", cause |-> text]
    ELSE ClassifiedReply(text)

\* except Exception as e: ... raise AIServiceUnavailableError() from e
ExceptOutcome(text) ==
    IF ErrorClass(text) = "unknown"
    THEN [kind |-> "raised", exc |-> "AIServiceUnavailableError", cause |-> text]
    ELSE ClassifiedReply(text)

\* final_content = self._sanitize_response(final_content) ... return {...}
ReturnOutcome(final_content, results) ==
    LET clean == _sanitize_response(final_content)
    IN  [kind |-> "returned",
         response |-> IF clean = <<>> THEN <<MSG_PROCESSED>> ELSE clean,
         tool_calls |-> results, cause |-> <<>>]

\* send_chat_message over ChatService.process_chat: what the user receives
send_chat_message(out) ==
    IF out.kind = "returned"
    THEN [status |-> 200, response |-> out.response, tool_calls |-> out.tool_calls]
    ELSE IF out.exc = "AIServiceUnavailableError"
    THEN [status |-> 503, response |-> MSG_UNAVAILABLE, tool_calls |-> <<>>]
    ELSE [status |-> 500, response |-> <<"Something went wrong. Please try again.">>,
          tool_calls |-> <<>>]

\* the arguments as they would be if the model's own user_id and session won
WithCaller_keeps_model_args(tool_args) ==
    tool_args @@ [user_id |-> CallerId, session |-> CallerSession]

\* tool_args["user_id"] = user_id; tool_args["session"] = session
WithCaller(tool_args) ==
    [user_id |-> CallerId, session |-> CallerSession] @@ tool_args

\* {"tool": tool_name, "result": result} or {"tool": tool_name, "error": str(e)}
\* one awaited execute_tool call: the tool, the tier that made it, and the
\* user_id and session among the keyword arguments the handler is given
Invocation(tool_name, tier, kwargs) ==
    [tool |-> tool_name, tier |-> tier,
     user_id |-> kwargs.user_id, session |-> kwargs.session]

Entry(tool_name, r) ==
    IF r.raised THEN [tool |-> tool_name, error |-> r.text]
    ELSE [tool |-> tool_name, result |-> r.value]

StoreAfter(r) == IF r.raised THEN store ELSE r.store

NextIdAfter(r) ==
    IF ~r.raised /\ (\E t \in r.store : t.id = next_id) THEN next_id + 1 ELSE next_id

AwaitingTool ==
    pc \in {"await_tool", "await_list", "await_act", "await_list_all",
            "await_delete", "await_std"}

\* process_message is entered: messages are built, the first completion is awaited
process_message ==
    /\ pc = "idle"
    /\ \E m \in Messages : message' = m
    /\ pc' = "await_model1"
    /\ model_calls' = model_calls + 1
    /\ UNCHANGED <<store, next_id, assistant_message, local,
                   tool_calls_results, outcome, invoked, other_deletes,
                   regVars, ctxVars, fnVars, sugVars, tmVars>>

\* a dispatch that falls to the intent detector whenever no structured call came
TierSkippingRecovered(has_proper_tool_calls, text_tool_calls) ==
    IF has_proper_tool_calls THEN 1 ELSE 3

\* if has_proper_tool_calls: ... elif text_tool_calls: ... else: ...
Tier(has_proper_tool_calls, text_tool_calls) ==
    IF has_proper_tool_calls THEN 1
    ELSE IF text_tool_calls # <<>> THEN 2
    ELSE 3

\* the first call of a list is prepared: json.loads, then execute_tool is awaited
StartCalls(loc) ==
    IF loc.calls[loc.idx].arguments.ok
    THEN /\ local' = loc
         /\ pc' = "await_tool"
         /\ outcome' = outcome
         /\ invoked' = Append(invoked,
                Invocation(local'.calls[local'.idx].name, local'.tier,
                           WithCaller(local'.calls[local'.idx].arguments.value)))
    ELSE /\ local' = [loc EXCEPT !.exc_origin = "json.loads"]
         /\ pc' = "done"
         /\ outcome' = ExceptOutcome(JSON_ERROR)
         /\ UNCHANGED invoked

\* the intent tier, entered when neither kind of call was produced
EnterIntentTier(loc) ==
    LET intent == _detect_intent(message)
        detected_tool == intent.tool
        content == assistant_message'.content
    IN  IF detected_tool = None
        THEN /\ local' = [loc EXCEPT !.detected = TRUE]
             /\ pc' = "done"
             /\ outcome' = ReturnOutcome(
                       IF content = <<>> \/ Contains(content, <<"<">>) THEN HELP
                       ELSE content, tool_calls_results)
             /\ UNCHANGED invoked
        ELSE /\ local' = [loc EXCEPT !.detected = TRUE,
                                     !.detected_tool = detected_tool,
                                     !.detected_params = intent.params]
             /\ outcome' = outcome
             /\ pc' = CASE detected_tool = "delete_all" -> "await_list_all"
                        [] detected_tool \in {"complete_task", "delete_task"}
                           /\ "task_ref" \in DOMAIN intent.params -> "await_list"
                        [] OTHER -> "await_std"
             /\ invoked' = Append(invoked,
                    IF detected_tool \in {"delete_all", "complete_task",
                                          "delete_task"}
                    THEN Invocation("list_tasks", 3, WithCaller(EmptyDict))
                    ELSE Invocation(local'.detected_tool, 3,
                                    WithCaller(local'.detected_params)))

\* the locals once the first completion has returned and the tier is chosen
Dispatched(structured, content) ==
    LET has_proper_tool_calls == structured # <<>>
        parsed == ~has_proper_tool_calls /\ content # <<>>
        text_tool_calls ==
            IF parsed THEN _parse_text_tool_calls(content) ELSE <<>>
        tier == Tier(has_proper_tool_calls, text_tool_calls)
    IN  [NoLocals EXCEPT
            !.tier = tier,
            !.has_proper_tool_calls = has_proper_tool_calls,
            !.text_tool_calls = text_tool_calls,
            !.parsed = parsed,
            !.idx = IF tier = 3 THEN 0 ELSE 1,
            !.calls =
                CASE tier = 1 -> structured
                  [] tier = 2 -> [k \in 1..Len(text_tool_calls) |->
                                    Call(text_tool_calls[k].name,
                                         Json(text_tool_calls[k].arguments))]
                  [] OTHER -> <<>>]

\* the first completion returns
model1_returns ==
    /\ pc = "await_model1"
    /\ \E structured \in CallLists \cup {<<>>}, content \in FirstContents :
        /\ structured # <<>> => content \in {<<>>, TXT_ONE_CALL}
        /\ assistant_message' = [tool_calls |-> structured, content |-> content]
        /\ \E loc \in {Dispatched(structured, content)} :
            IF loc.tier \in {1, 2} THEN StartCalls(loc) ELSE EnterIntentTier(loc)
    /\ UNCHANGED <<store, next_id, message, tool_calls_results, model_calls,
                   other_deletes, regVars, ctxVars, fnVars, sugVars, tmVars>>

\* a completion fails: the provider's error reaches the except block
model_fails ==
    /\ pc \in {"await_model1", "await_model2"}
    /\ pc' = "done"
    /\ \E e \in ProviderErrors : outcome' = ExceptOutcome(e)
    /\ local' = [local EXCEPT !.exc_origin = "model"]
    /\ UNCHANGED <<store, next_id, message, assistant_message,
                   tool_calls_results, invoked, model_calls, other_deletes,
                   regVars, ctxVars, fnVars, sugVars, tmVars>>

\* the final response is built from the results in both tiers
AfterCallsTemplated(tier, results) ==
    IF tier = 1 /\ \E k \in 1..Len(results) : results[k].tool \notin TemplatedTools
    THEN [again |-> TRUE, final_content |-> <<>>]
    ELSE [again |-> FALSE, final_content |-> _generate_natural_response(results)]

\* what follows the loop over the calls: the structured tier asks the model
\* for the final response, the recovered tier builds it from the results
AfterCalls(tier, results) ==
    IF tier = 1 THEN [again |-> TRUE, final_content |-> <<>>]
    ELSE [again |-> FALSE, final_content |-> _generate_natural_response(results)]

\* a call of the structured or recovered list returns or raises; the loop
\* goes on to the next call, or the reply is produced
tool_returns ==
    /\ pc = "await_tool"
    /\ \E fault \in BOOLEAN :
        LET call == local.calls[local.idx]
            r == execute_tool(_tools, call.name, store, next_id,
                              WithCaller(call.arguments.value), fault)
            results == Append(tool_calls_results, Entry(call.name, r))
            after == AfterCalls(local.tier, results)
        IN  /\ store' = StoreAfter(r)
            /\ next_id' = NextIdAfter(r)
            /\ tool_calls_results' = results
            /\ IF local.idx < Len(local.calls)
               THEN /\ StartCalls([local EXCEPT !.idx = local.idx + 1])
                    /\ UNCHANGED model_calls
               ELSE IF after.again
               THEN /\ pc' = "await_model2"
                    /\ model_calls' = model_calls + 1
                    /\ UNCHANGED <<local, outcome, invoked>>
               ELSE /\ local' = [local EXCEPT !.final_content = after.final_content]
                    /\ pc' = "done"
                    /\ outcome' = ReturnOutcome(after.final_content, results)
                    /\ UNCHANGED <<invoked, model_calls>>
    /\ UNCHANGED <<message, assistant_message, other_deletes, regVars, ctxVars, fnVars, sugVars, tmVars>>

\* the second completion returns: its content is the final response
model2_returns ==
    /\ pc = "await_model2"
    /\ \E content \in SecondContents :
        /\ local' = [local EXCEPT !.final_content = content]
        /\ pc' = "done"
        /\ outcome' = ReturnOutcome(content, tool_calls_results)
    /\ UNCHANGED <<store, next_id, message, assistant_message,
                   tool_calls_results, invoked, model_calls, other_deletes,
                   regVars, ctxVars, fnVars, sugVars, tmVars>>

\* the first listed task whose title holds the reference
RECURSIVE FirstMatch(_, _, _)
FirstMatch(tasks, k, task_ref) ==
    IF k > Len(tasks) THEN EmptyDict
    ELSE IF Contains(Lower(tasks[k].title), Lower(task_ref)) THEN tasks[k]
    ELSE FirstMatch(tasks, k + 1, task_ref)

PH_NO_MATCH_1 == "I couldn't find a task matching '"
PH_NO_MATCH_2 == "'. Try 'show my tasks' to see your list."

\* complete/delete by reference: list_tasks returns, the reference is resolved
list_returns ==
    /\ pc = "await_list"
    /\ \E fault \in BOOLEAN :
        LET r == execute_tool(_tools, "list_tasks", store, next_id,
                              WithCaller(EmptyDict), fault)
            task_ref == local.detected_params.task_ref
            tasks == IF r.raised THEN <<>> ELSE Get(r.value, "tasks", <<>>)
            matched_task == FirstMatch(tasks, 1, task_ref)
        IN  IF r.raised
            THEN /\ local' = [local EXCEPT !.exc_origin = "list_tasks"]
                 /\ pc' = "done"
                 /\ outcome' = ExceptOutcome(r.text)
                 /\ UNCHANGED invoked
            ELSE IF matched_task # EmptyDict
            THEN /\ local' = [local EXCEPT !.tasks = tasks,
                                           !.matched_task = matched_task]
                 /\ pc' = "await_act"
                 /\ outcome' = outcome
                 /\ invoked' = Append(invoked,
                        Invocation(local.detected_tool, 3,
                                   WithCaller([task_id |-> local'.matched_task.id])))
            ELSE /\ local' = [local EXCEPT !.tasks = tasks]
                 /\ pc' = "done"
                 /\ outcome' = ReturnOutcome(
                           <<PH_NO_MATCH_1>> \o task_ref \o <<PH_NO_MATCH_2>>,
                           tool_calls_results)
                 /\ UNCHANGED invoked
    /\ UNCHANGED <<store, next_id, message, assistant_message,
                   tool_calls_results, model_calls, other_deletes, regVars, ctxVars, fnVars, sugVars, tmVars>>

\* detected_tool.replace('_', ' ')
Spaced(tool) ==
    CASE tool = "complete_task" -> "complete task"
      [] tool = "delete_task" -> "delete task"
      [] OTHER -> tool

\* complete/delete by reference: the tool called on the matched id returns
act_returns ==
    /\ pc = "await_act"
    /\ \E fault \in BOOLEAN :
        LET r == execute_tool(_tools, local.detected_tool, store, next_id,
                              WithCaller([task_id |-> local.matched_task.id]),
                              fault)
            results ==
                IF r.raised THEN tool_calls_results
                ELSE Append(tool_calls_results,
                        [tool |-> local.detected_tool,
                         result |-> [title |-> local.matched_task.title] @@ r.value])
        IN  /\ store' = StoreAfter(r)
            /\ next_id' = NextIdAfter(r)
            /\ tool_calls_results' = results
            /\ pc' = "done"
            /\ outcome' = ReturnOutcome(
                      IF r.raised
                      THEN <<"Sorry, couldn't ", Spaced(local.detected_tool), ": ">>
                               \o r.text
                      ELSE _generate_natural_response(results), results)
    /\ UNCHANGED <<message, assistant_message, local, invoked, model_calls,
                   other_deletes, regVars, ctxVars, fnVars, sugVars, tmVars>>

\* delete all: list_tasks returns, the deletions begin
list_all_returns ==
    /\ pc = "await_list_all"
    /\ \E fault \in BOOLEAN :
        LET r == execute_tool(_tools, "list_tasks", store, next_id,
                              WithCaller(EmptyDict), fault)
            tasks == IF r.raised THEN <<>> ELSE Get(r.value, "tasks", <<>>)
            results == Append(tool_calls_results,
                           [tool |-> "delete_all", result |-> [deleted_count |-> 0]])
        IN  IF r.raised
            THEN /\ local' = [local EXCEPT !.exc_origin = "list_tasks"]
                 /\ pc' = "done"
                 /\ outcome' = ExceptOutcome(r.text)
                 /\ UNCHANGED <<invoked, tool_calls_results>>
            ELSE IF tasks # <<>>
            THEN /\ local' = [local EXCEPT !.tasks = tasks, !.idx = 1,
                                           !.deleted_count = 0]
                 /\ pc' = "await_delete"
                 /\ outcome' = outcome
                 /\ invoked' = Append(invoked,
                        Invocation("delete_task", 3,
                                   WithCaller([task_id |-> local'.tasks[1].id])))
                 /\ UNCHANGED tool_calls_results
            ELSE /\ local' = [local EXCEPT !.tasks = tasks]
                 /\ tool_calls_results' = results
                 /\ pc' = "done"
                 /\ outcome' = ReturnOutcome(
                           <<"Deleted ">> \o NumText(0) \o <<" task(s) from your list.">>,
                           results)
                 /\ UNCHANGED invoked
    /\ UNCHANGED <<store, next_id, message, assistant_message, model_calls,
                   other_deletes, regVars, ctxVars, fnVars, sugVars, tmVars>>

\* delete all: one delete_task returns or raises
delete_returns ==
    /\ pc = "await_delete"
    /\ \E fault \in BOOLEAN :
        LET task == local.tasks[local.idx]
            r == execute_tool(_tools, "delete_task", store, next_id,
                              WithCaller([task_id |-> task.id]), fault)
            deleted_count == IF r.raised THEN local.deleted_count
                             ELSE local.deleted_count + 1
            more == local.idx < Len(local.tasks)
            results == Append(tool_calls_results,
                           [tool |-> "delete_all",
                            result |-> [deleted_count |-> deleted_count]])
        IN  /\ store' = StoreAfter(r)
            /\ next_id' = NextIdAfter(r)
            /\ IF more
               THEN /\ local' = [local EXCEPT !.idx = local.idx + 1,
                                              !.deleted_count = deleted_count]
                    /\ pc' = "await_delete"
                    /\ outcome' = outcome
                    /\ invoked' = Append(invoked,
                           Invocation("delete_task", 3,
                               WithCaller([task_id |-> local.tasks[local.idx + 1].id])))
                    /\ UNCHANGED tool_calls_results
               ELSE /\ local' = [local EXCEPT !.deleted_count = deleted_count]
                    /\ tool_calls_results' = results
                    /\ pc' = "done"
                    /\ outcome' = ReturnOutcome(
                              <<"Deleted ">> \o NumText(deleted_count)
                                  \o <<" task(s) from your list.">>, results)
                    /\ UNCHANGED invoked
    /\ UNCHANGED <<message, assistant_message, model_calls, other_deletes,
                   regVars, ctxVars, fnVars, sugVars, tmVars>>

\* any other detected tool returns or raises
std_returns ==
    /\ pc = "await_std"
    /\ \E fault \in BOOLEAN :
        LET r == execute_tool(_tools, local.detected_tool, store, next_id,
                              WithCaller(local.detected_params), fault)
            results == IF r.raised THEN tool_calls_results
                       ELSE Append(tool_calls_results,
                                   [tool |-> local.detected_tool, result |-> r.value])
        IN  /\ store' = StoreAfter(r)
            /\ next_id' = NextIdAfter(r)
            /\ tool_calls_results' = results
            /\ pc' = "done"
            /\ outcome' = ReturnOutcome(
                      IF r.raised THEN <<"Sorry, something went wrong: ">> \o r.text
                      ELSE _generate_natural_response(results), results)
    /\ UNCHANGED <<message, assistant_message, local, invoked, model_calls,
                   other_deletes, regVars, ctxVars, fnVars, sugVars, tmVars>>

\* another turn of the same user deletes a task and commits while this turn
\* waits for a tool
other_turn_deletes ==
    /\ AwaitingTool
    /\ Len(other_deletes) < MaxOtherDeletes
    /\ \E t \in store :
        /\ store' = store \ {t}
        /\ other_deletes' = Append(other_deletes, [id |-> t.id, at |-> pc])
    /\ UNCHANGED <<next_id, pc, message, assistant_message, local,
                   tool_calls_results, outcome, invoked, model_calls, regVars, ctxVars, fnVars, sugVars, tmVars>>

Next ==
    \/ process_message
    \/ model1_returns
    \/ model2_returns
    \/ model_fails
    \/ tool_returns
    \/ list_returns
    \/ act_returns
    \/ list_all_returns
    \/ delete_returns
    \/ std_returns
    \/ other_turn_deletes

Spec == Init /\ [][Next]_vars

\* A request is handed to process_message as soon as it arrives, and the
\* completion client gives up on a request that stays pending: its own
\* timeout raises the error model_fails delivers.  Nothing in the code bounds
\* the time a tool handler takes, so no fairness is stated for the steps
\* that complete a handler.
FairSpec == Spec /\ WF_vars(process_message) /\ WF_vars(model_fails)

(***************************************************************************)
(* Properties of the chat turn.                                            *)
(***************************************************************************)
\* what the user receives once the turn has ended
Reply == send_chat_message(outcome)

Names(calls) == [k \in 1..Len(calls) |-> calls[k].name]

Tools(entries) == [k \in 1..Len(entries) |-> entries[k].tool]

AllTemplated(calls) == \A k \in 1..Len(calls) : calls[k].name \in TemplatedTools

\* C1: when the first completion carries structured calls, every call of the
\* list is executed in the order given and the returned tool_calls list has
\* one entry per call, in that order, each with a result or an error; no
\* failure of one call (unknown tool, handler exception, undecodable
\* arguments) keeps the later calls from executing.
C1_EveryStructuredCallExecuted ==
    (pc = "done" /\ local.has_proper_tool_calls /\ local.exc_origin # "model") =>
        /\ Tools(invoked) = Names(local.calls)
        /\ outcome.kind = "returned"
        /\ Tools(outcome.tool_calls) = Names(local.calls)
        /\ \A k \in 1..Len(outcome.tool_calls) :
                \/ "result" \in DOMAIN outcome.tool_calls[k]
                \/ "error" \in DOMAIN outcome.tool_calls[k]

\* C2: whatever way the turn ends, the reply the user receives holds none of
\* the markup tokens <tool_call>, </tool_call>, <function=...>, </function>,
\* <parameter=...>, </parameter>.
C2_ReplyHasNoMarkup ==
    pc = "done" => ~HasMarkup(Reply.response)

\* C3: the tiers are tried in order and exclude each other: text calls are
\* parsed only when no structured call came, the intent detector runs only
\* when neither structured nor recovered calls exist, and all the tool calls
\* of a turn come from one tier.
C3_TiersExclusive ==
    /\ local.parsed => ~local.has_proper_tool_calls
    /\ local.detected =>
            ~local.has_proper_tool_calls /\ local.text_tool_calls = <<>>
    /\ \A k \in 1..Len(invoked) : invoked[k].tier = local.tier
    /\ local.tier = 1 => local.has_proper_tool_calls /\ ~local.detected
    /\ local.tier = 2 =>
            /\ ~local.has_proper_tool_calls
            /\ local.text_tool_calls # <<>>
            /\ ~local.detected
    /\ local.tier = 3 => local.detected

\* a turn that ran recovered text calls although the message states an intent
C3_Witness ==
    /\ pc = "done"
    /\ local.tier = 2
    /\ message = MSG_ADD
    /\ Len(invoked) = 2
    /\ ~local.detected

C5_ModelFailureClassified ==
    (pc = "done" /\ local.exc_origin = "model") =>
        /\ ErrorClass(outcome.cause)
                \in {"rate_limited", "unauthorized", "model_unavailable", "unknown"}
        /\ Reply.response = ClassMessage(ErrorClass(outcome.cause))
        /\ ~Contains(Reply.response, outcome.cause)
        /\ ~Contains(Lower(Reply.response), Lower(outcome.cause))

\* a provider text holding the words of two classes, and one holding none
C5_Witness ==
    /\ pc = "done"
    /\ local.exc_origin = "model"
    /\ \/ outcome.cause = ERR_BOTH /\ Reply.response = MSG_RATE
       \/ outcome.cause = ERR_TIMEOUT /\ Reply.response = MSG_UNAVAILABLE

DeletedBeforeAct ==
    /\ local.matched_task # EmptyDict
    /\ \E k \in 1..Len(other_deletes) :
            /\ other_deletes[k].at = "await_act"
            /\ IdText(other_deletes[k].id) = local.matched_task.id

\* C7: in the intent tier's complete/delete by reference, when another turn
\* deletes the matched task between the list step and the act step, the turn
\* ends with a reply, and the reply does not say the task was completed or
\* deleted.
C7_RaceYieldsNotFound ==
    (pc = "done" /\ local.detected_tool \in {"complete_task", "delete_task"}
        /\ DeletedBeforeAct) =>
        /\ outcome.kind = "returned"
        /\ ~Contains(outcome.response, <<"Marked '">>)
        /\ ~Contains(outcome.response, <<"Deleted '">>)

\* an entry of tool_calls whose tool did not do its work
EntryFailed(e) ==
    \/ "error" \in DOMAIN e
    \/ "result" \in DOMAIN e /\ "error" \in DOMAIN e.result

\* the reply text names a failure
Acknowledges(response) ==
    \/ Contains(response, <<"Sorry, there was an error: ">>)
    \/ Contains(response, <<"Couldn't delete: ">>)

\* C8: when several tools ran in a turn and one failed (handler exception,
\* unparseable task id, task not found), the failure is a per-tool error
\* entry, the other tools' entries are kept, and the reply the program writes
\* names the failure instead of reporting success.
C8_FailureReportedPerTool ==
    (pc = "done" /\ outcome.kind = "returned" /\ local.exc_origin = None
        /\ local.tier \in {1, 2} /\ Len(local.calls) > 1) =>
        /\ Len(outcome.tool_calls) = Len(local.calls)
        /\ \A k \in 1..Len(outcome.tool_calls) :
                EntryFailed(outcome.tool_calls[k]) =>
                    /\ "error" \in DOMAIN outcome.tool_calls[k]
                    /\ local.tier = 2 => Acknowledges(outcome.response)

\* C9: every chat turn ends, even when a completion or a tool handler never
\* returns.
C9_EveryTurnTerminates ==
    <>(pc = "done")

(***************************************************************************)
(* ConversationContext and ContextManager (services/context_manager.py).   *)
(* An OrderedDict is the sequence of its values, oldest key first.         *)
(***************************************************************************)
\* the number of task references a context keeps
MaxReferences == 10

\* ContextManager(max_contexts, context_ttl_hours), scaled down
_max_contexts == 2
_context_ttl == 1

TaskReference(task_id, task_title, mentioned_at, mention_type) ==
    [task_id |-> task_id, task_title |-> task_title,
     mentioned_at |-> mentioned_at, mention_type |-> mention_type]

\* ConversationContext(user_id=user_id); created_at, which nothing reads, is
\* left out
ConversationContext(user_id, now) ==
    [user_id |-> user_id, task_references |-> <<>>, last_action |-> None,
     last_task_id |-> None, updated_at |-> now]

\* a list's [-n:]
LastN(s, n) == IF Len(s) > n THEN SubSeq(s, Len(s) - n + 1, Len(s)) ELSE s

\* an add_task_reference that trims with [:10]
add_task_reference_keeps_first(context, task_id, task_title, mention_type, now) ==
    LET ref == TaskReference(task_id, task_title, now, mention_type)
        refs == Append(context.task_references, ref)
    IN  [context EXCEPT
            !.task_references =
                IF Len(refs) > MaxReferences THEN SubSeq(refs, 1, MaxReferences) ELSE refs,
            !.last_task_id = task_id,
            !.last_action = mention_type,
            !.updated_at = now]

add_task_reference(context, task_id, task_title, mention_type, now) ==
    LET ref == TaskReference(task_id, task_title, now, mention_type)
        refs == Append(context.task_references, ref)
    IN  [context EXCEPT
            !.task_references =
                IF Len(refs) > MaxReferences THEN LastN(refs, MaxReferences) ELSE refs,
            !.last_task_id = task_id,
            !.last_action = mention_type,
            !.updated_at = now]

get_most_recent_task(context) ==
    IF context.task_references # <<>>
    THEN context.task_references[Len(context.task_references)]
    ELSE NoReference

\* the loop over reversed(self.task_references), from position k down
RECURSIVE TitleScan(_, _, _)
TitleScan(refs, k, partial_lower) ==
    IF k = 0 THEN NoReference
    ELSE IF Contains(Lower(refs[k].task_title), partial_lower) THEN refs[k]
    ELSE TitleScan(refs, k - 1, partial_lower)

get_task_by_partial_title(context, partial_title) ==
    TitleScan(context.task_references, Len(context.task_references),
              Lower(partial_title))

\* ConversationContext.clear
clear(context) ==
    [context EXCEPT !.task_references = <<>>, !.last_action = None,
                    !.last_task_id = None]

RECENT_TASK_INDICATORS ==
    { <<"i", "t">>, <<"t", "h", "a", "t">>, <<"t", "h", "i", "s">>,
      <<"t", "h", "e", " ", "t", "a", "s", "k">>,
      <<"t", "h", "a", "t", " ", "t", "a", "s", "k">>,
      <<"t", "h", "i", "s", " ", "t", "a", "s", "k">>,
      <<"t", "h", "e", " ", "o", "n", "e">>,
      <<"t", "h", "a", "t", " ", "o", "n", "e">>,
      <<"t", "h", "i", "s", " ", "o", "n", "e">>,
      <<"t", "h", "e", " ", "o", "n", "e", " ", "i", " ",
        "m", "e", "n", "t", "i", "o", "n", "e", "d">>,
      <<"t", "h", "a", "t", " ", "o", "n", "e", " ", "i", " ",
        "m", "e", "n", "t", "i", "o", "n", "e", "d">>,
      <<"m", "y", " ", "l", "a", "s", "t", " ", "t", "a", "s", "k">>,
      <<"t", "h", "e", " ", "l", "a", "s", "t", " ", "t", "a", "s", "k">>,
      <<"t", "h", "e", " ", "l", "a", "s", "t", " ", "o", "n", "e">>,
      <<"t", "h", "e", " ", "p", "r", "e", "v", "i", "o", "u", "s", " ",
        "t", "a", "s", "k">>,
      <<"t", "h", "e", " ", "p", "r", "e", "v", "i", "o", "u", "s", " ",
        "o", "n", "e">>,
      <<"w", "o">>, <<"w", "o", "h">>, <<"y", "e">>, <<"y", "e", "h">>,
      <<"w", "o", " ", "t", "a", "s", "k">>, <<"y", "e", " ", "t", "a", "s", "k">>,
      <<"w", "a", "l", "a">>, <<"w", "a", "l", "i">>,
      <<"p", "i", "c", "h", "l", "a">>,
      <<"p", "i", "c", "h", "l", "a", " ", "t", "a", "s", "k">>,
      <<"U+0648", "U+06C1">>, <<"U+06CC", "U+06C1">> }

\* the context of user_id in an OrderedDict, None when it has none
ContextOf(contexts, user_id) ==
    IF \E k \in 1..Len(contexts) : contexts[k].user_id = user_id
    THEN contexts[CHOOSE k \in 1..Len(contexts) : contexts[k].user_id = user_id]
    ELSE None

Tracked(contexts) == {contexts[k].user_id : k \in 1..Len(contexts)}

IsExpired(context, now) == now - context.updated_at > _context_ttl

_cleanup_expired(contexts, now) ==
    SelectSeq(contexts, LAMBDA c : ~IsExpired(c, now))

\* while len(self._contexts) > self._max_contexts: popitem(last=False)
RECURSIVE PopOldest(_)
PopOldest(contexts) ==
    IF Len(contexts) > _max_contexts THEN PopOldest(Tail(contexts)) ELSE contexts

\* OrderedDict.move_to_end(user_id)
move_to_end(contexts, user_id) ==
    SelectSeq(contexts, LAMBDA c : c.user_id # user_id)
        \o <<ContextOf(contexts, user_id)>>

\* get_context without move_to_end: the dict keeps insertion order
get_context_fifo(contexts, user_id, now) ==
    LET kept == _cleanup_expired(contexts, now)
        purged == Tracked(contexts) \ Tracked(kept)
    IN  IF user_id \in Tracked(kept)
        THEN [contexts |-> kept, context |-> ContextOf(kept, user_id),
              purged |-> purged, evicted |-> <<>>]
        ELSE LET context == ConversationContext(user_id, now)
                 added == Append(kept, context)
                 left == PopOldest(added)
             IN  [contexts |-> left, context |-> context, purged |-> purged,
                  evicted |-> [k \in 1..(Len(added) - Len(left)) |-> added[k].user_id]]

\* the dict after the call, the context returned, and the keys the call
\* deleted as expired and popped as oldest
get_context(contexts, user_id, now) ==
    LET kept == _cleanup_expired(contexts, now)
        purged == Tracked(contexts) \ Tracked(kept)
    IN  IF user_id \in Tracked(kept)
        THEN [contexts |-> move_to_end(kept, user_id),
              context |-> ContextOf(kept, user_id),
              purged |-> purged, evicted |-> <<>>]
        ELSE LET context == ConversationContext(user_id, now)
                 added == Append(kept, context)
                 left == PopOldest(added)
             IN  [contexts |-> left, context |-> context, purged |-> purged,
                  evicted |-> [k \in 1..(Len(added) - Len(left)) |-> added[k].user_id]]

\* the dict after a method changed the context object it was handed
Store(contexts, context) ==
    [k \in 1..Len(contexts) |->
        IF contexts[k].user_id = context.user_id THEN context ELSE contexts[k]]

record_task_mention(contexts, user_id, task_id, task_title, mention_type, now) ==
    LET got == get_context(contexts, user_id, now)
        context == add_task_reference(got.context, task_id, task_title,
                                      mention_type, now)
    IN  [got EXCEPT !.contexts = Store(got.contexts, context), !.context = context]

\* re.findall(r'"([^"]+)"', text) from position i on
RECURSIVE QuotedFrom(_, _)
QuotedFrom(text, i) ==
    LET open == FindLit(text, i, <<"\"">>)
        close == IF open = 0 THEN 0 ELSE FindLit(text, open + 1, <<"\"">>)
    IN  IF open = 0 \/ close = 0 THEN <<>>
        ELSE IF close = open + 1 THEN QuotedFrom(text, close)
        ELSE <<SubSeq(text, open + 1, close - 1)>> \o QuotedFrom(text, close + 1)

\* r"task\s*#?\s*([a-zA-Z0-9-]+)"
task_id_pattern ==
    RCat(<<RLit(<<"t", "a", "s", "k">>), Sp0, ROpt(RLit(<<"#">>)), Sp0,
           RGrp(RRep(Cls(Letters \cup UpperLetters \cup Digits \cup {"-"}, {}, FALSE),
                     1, TRUE))>>)

\* for quoted in quoted_matches: the first quoted text some title contains
RECURSIVE QuotedScan(_, _, _)
QuotedScan(context, quoted_matches, k) ==
    IF k > Len(quoted_matches) THEN NoReference
    ELSE LET task == get_task_by_partial_title(context, quoted_matches[k])
         IN  IF task # NoReference THEN task
             ELSE QuotedScan(context, quoted_matches, k + 1)

\* for ref in context.task_references: the first whose id contains task_id
RECURSIVE IdScan(_, _, _)
IdScan(refs, k, task_id) ==
    IF k > Len(refs) THEN NoReference
    ELSE IF Contains(Lower(refs[k].task_id), task_id) THEN refs[k]
    ELSE IdScan(refs, k + 1, task_id)

\* the rules with the quoted titles tried before the indicators
ResolveInTitleFirst(context, text) ==
    LET text_lower == Lower(text)
        by_title == QuotedScan(context, QuotedFrom(text, 1), 1)
        task_id_match == ReSearch(task_id_pattern, text_lower)
    IN  IF by_title # NoReference THEN by_title
        ELSE IF \E indicator \in RECENT_TASK_INDICATORS : Contains(text_lower, indicator)
        THEN get_most_recent_task(context)
        ELSE IF task_id_match.found
        THEN IdScan(context.task_references, 1, Group1(text_lower, task_id_match))
        ELSE NoReference

\* the rules of resolve_task_reference on the context it got
ResolveIn(context, text) ==
    LET text_lower == Lower(text)
        by_title == QuotedScan(context, QuotedFrom(text, 1), 1)
        task_id_match == ReSearch(task_id_pattern, text_lower)
    IN  IF \E indicator \in RECENT_TASK_INDICATORS : Contains(text_lower, indicator)
        THEN get_most_recent_task(context)
        ELSE IF by_title # NoReference THEN by_title
        ELSE IF task_id_match.found
        THEN IdScan(context.task_references, 1, Group1(text_lower, task_id_match))
        ELSE NoReference

resolve_task_reference(contexts, user_id, text, now) ==
    LET got == get_context(contexts, user_id, now)
    IN  [contexts |-> got.contexts, result |-> ResolveIn(got.context, text),
         purged |-> got.purged, evicted |-> got.evicted]

\* a clear_context that empties every context
clear_every_context(contexts, user_id) ==
    [k \in 1..Len(contexts) |-> clear(contexts[k])]

clear_context(contexts, user_id) ==
    IF user_id \in Tracked(contexts)
    THEN Store(contexts, clear(ContextOf(contexts, user_id)))
    ELSE contexts

(***************************************************************************)
(* The tracker under calls from several users, and the passing of time.    *)
(***************************************************************************)
\* the latest hour explored
MaxClock == 2

\* the most calls made in one run of the tracker
MaxCalls == 4

\* the mentions one user records in a run of the log
MaxMentions == 11

\* the mentions of the first task in one run of the log
MaxFirstTask == 1

TASK_A1 == [id |-> <<"a", "1">>, title |-> TITLE_MILK]
TASK_B1 == [id |-> <<"b", "1">>, title |-> TITLE_MILK_TEA]
MentionedTasks == {TASK_A1, TASK_B1}
MentionTypes == {"created"}

\* 'do it'
REF_IT ==
    <<"d", "o", " ", "i", "t">>

\* 'mark "milk" done'
REF_QUOTED ==
    <<"m", "a", "r", "k", " ", "\"", "m", "i", "l", "k", "\"", " ", "d", "o", "n", "e">>

\* '"BUY" done'
REF_QUOTED_BUY ==
    <<"\"", "B", "U", "Y", "\"", " ", "d", "o", "n", "e">>

\* 'task a1'
REF_ID ==
    <<"t", "a", "s", "k", " ", "a", "1">>

\* 'hello'
REF_NONE ==
    <<"h", "e", "l", "l", "o">>

\* 'it "buy"'
REF_IT_QUOTED ==
    <<"i", "t", " ", "\"", "b", "u", "y", "\"">>

\* 'task a1 "jam"'
REF_QUOTED_ID ==
    <<"t", "a", "s", "k", " ", "a", "1", " ", "\"", "j", "a", "m", "\"">>

\* '"jam" "tea"'
REF_TWO_QUOTED ==
    <<"\"", "j", "a", "m", "\"", " ", "\"", "t", "e", "a", "\"">>

\* 'Task #1'
REF_SHARED_ID ==
    <<"T", "a", "s", "k", " ", "#", "1">>

ResolveTexts == {REF_IT}

LogTexts ==
    {REF_IT, REF_QUOTED, REF_QUOTED_BUY, REF_ID, REF_NONE, REF_IT_QUOTED,
     REF_QUOTED_ID, REF_TWO_QUOTED, REF_SHARED_ID}

\* the tracker as constructed
InitCtx ==
    /\ _tools = EmptyRegistry
    /\ registrations = <<>>
    /\ looked_up = None
    /\ TurnParked
    /\ NoTracker
    /\ NoService
    /\ NoApplication

\* history: user_id was accessed now
Touch(user_id) ==
    /\ access_order' = SelectSeq(access_order, LAMBDA u : u # user_id) \o <<user_id>>
    /\ access_time' = [access_time EXCEPT ![user_id] = clock]

\* history: what a call through get_context removed
Drop(got, user_id) ==
    [evicted |-> got.evicted,
     purged |-> {[user_id |-> u, last_access |-> access_time[u]] : u \in got.purged},
     by |-> user_id,
     overflowed |-> dropped.overflowed \/ got.evicted # <<>>]

\* a record_task_mention call on the tracker
Mention(user_id, task, mention_type) ==
    LET done == record_task_mention(_contexts, user_id, task.id, task.title,
                                    mention_type, clock)
    IN  /\ _contexts' = done.contexts
        /\ recorded' = [recorded EXCEPT ![user_id] =
              Append(@, TaskReference(task.id, task.title, clock, mention_type))]
        /\ Touch(user_id)
        /\ dropped' = Drop(done, user_id)
        /\ resolved' = NotResolving
        /\ UNCHANGED <<clock, regVars, turnVars, fnVars, sugVars, tmVars>>

\* a resolve_task_reference call on the tracker
Resolve(user_id, text) ==
    LET done == resolve_task_reference(_contexts, user_id, text, clock)
    IN  /\ _contexts' = done.contexts
        /\ resolved' = [user_id |-> user_id, text |-> text, result |-> done.result,
                        last_access |-> access_time[user_id], hour |-> clock]
        /\ Touch(user_id)
        /\ dropped' = Drop(done, user_id)
        /\ UNCHANGED <<clock, recorded, regVars, turnVars, fnVars, sugVars, tmVars>>

\* the same calls on the tracker user_id has to itself
MentionAlone(user_id, task, mention_type) ==
    alone' = [alone EXCEPT ![user_id].contexts =
        record_task_mention(@, user_id, task.id, task.title, mention_type,
                            clock).contexts]

ResolveAlone(user_id, text) ==
    LET solo == resolve_task_reference(alone[user_id].contexts, user_id, text, clock)
    IN  alone' = [alone EXCEPT ![user_id] =
            [contexts |-> solo.contexts, resolved |-> solo.result]]

recordMention ==
    /\ tracker_calls < MaxCalls
    /\ tracker_calls' = tracker_calls + 1
    /\ \E user_id \in Users, task \in {TASK_B1}, mention_type \in MentionTypes :
          /\ Mention(user_id, task, mention_type)
          /\ MentionAlone(user_id, task, mention_type)

resolveReference ==
    /\ tracker_calls < MaxCalls
    /\ tracker_calls' = tracker_calls + 1
    /\ \E user_id \in Users, text \in ResolveTexts :
          /\ Resolve(user_id, text)
          /\ ResolveAlone(user_id, text)

clearContext ==
    /\ tracker_calls < MaxCalls
    /\ tracker_calls' = tracker_calls + 1
    /\ \E user_id \in Users :
        /\ _contexts' = clear_context(_contexts, user_id)
        /\ alone' = [alone EXCEPT ![user_id].contexts = clear_context(@, user_id)]
        /\ resolved' = NotResolving
        /\ UNCHANGED <<clock, recorded, access_order, access_time, dropped,
                       regVars, turnVars, fnVars, sugVars, tmVars>>

hour_passes ==
    /\ clock < MaxClock
    /\ clock' = clock + 1
    /\ UNCHANGED <<_contexts, resolved, recorded, access_order, access_time, dropped,
                   alone, tracker_calls, regVars, turnVars, fnVars, sugVars, tmVars>>

NextCtx == recordMention \/ resolveReference \/ clearContext \/ hour_passes

SpecCtx == InitCtx /\ [][NextCtx]_vars

\* the mentions of task recorded for user_id
Mentions(user_id, task) ==
    Cardinality({k \in 1..Len(recorded[user_id]) :
                    recorded[user_id][k].task_id = task.id})

\* one user's log: mention after mention, resolved between them
log_mention ==
    /\ Len(recorded["u1"]) < MaxMentions
    /\ \E task \in MentionedTasks, mention_type \in MentionTypes :
          /\ task = TASK_A1 => Mentions("u1", TASK_A1) < MaxFirstTask
          /\ Mention("u1", task, mention_type)
    /\ UNCHANGED <<alone, tracker_calls>>

log_resolve ==
    /\ \E text \in LogTexts : Resolve("u1", text)
    /\ UNCHANGED <<alone, tracker_calls>>

NextLog == log_mention \/ log_resolve

SpecLog == InitCtx /\ [][NextLog]_vars

(***************************************************************************)
(* Claims on the context tracker.                                          *)
(***************************************************************************)
\* the positions of the log of user_id that a context of MaxReferences
\* entries covers once n mentions are recorded
Window(n) == {k \in 1..n : k > n - MaxReferences}

AskedText == resolved.text
AskedLog == recorded[resolved.user_id]
AskedWindow == Window(Len(AskedLog))
HasIndicator ==
    \E indicator \in RECENT_TASK_INDICATORS : Contains(Lower(AskedText), indicator)
AskedQuoted == QuotedFrom(AskedText, 1)
AskedToken == ReSearch(task_id_pattern, Lower(AskedText))
TitleHits(quoted) ==
    {k \in AskedWindow : Contains(Lower(AskedLog[k].task_title), Lower(quoted))}
IdHits ==
    {k \in AskedWindow :
        Contains(Lower(AskedLog[k].task_id), Group1(Lower(AskedText), AskedToken))}
Newest(hits) == CHOOSE k \in hits : \A j \in hits : j <= k
Oldest(hits) == CHOOSE k \in hits : \A j \in hits : k <= j
FoundQuoted == {j \in 1..Len(AskedQuoted) : TitleHits(AskedQuoted[j]) # {}}

\* C12 as stated: a text without indicator that holds a quoted substring is
\* settled by the title rule alone, so what it returns is none or an entry
\* whose title contains a quoted substring.
C12_QuotedRuleIsFinal ==
    (resolved.user_id # None /\ ~HasIndicator /\ AskedQuoted # <<>>) =>
        \/ resolved.result = NoReference
        \/ \E j \in 1..Len(AskedQuoted) :
              Contains(Lower(resolved.result.task_title), Lower(AskedQuoted[j]))

\* C12, amended: an indicator in the text returns the most recently recorded
\* mention; otherwise the first quoted substring that some title contains
\* returns the most recent entry with such a title; otherwise (no quoted
\* substring, or none that a title contains) an id-like token returns the
\* oldest entry whose id contains it; otherwise none is returned.
C12_FixedPrecedence ==
    resolved.user_id # None =>
        IF HasIndicator
        THEN resolved.result =
                IF AskedWindow = {} THEN NoReference ELSE AskedLog[Newest(AskedWindow)]
        ELSE IF FoundQuoted # {}
        THEN resolved.result =
                AskedLog[Newest(TitleHits(AskedQuoted[Oldest(FoundQuoted)]))]
        ELSE IF AskedToken.found /\ IdHits # {}
        THEN resolved.result = AskedLog[Oldest(IdHits)]
        ELSE resolved.result = NoReference

\* after the first task then the second were recorded, a text holding both
\* an indicator and the quoted title of the first resolves to the second
C12_Witness ==
    /\ Len(recorded["u1"]) = 2
    /\ recorded["u1"][1].task_id = TASK_A1.id
    /\ recorded["u1"][2].task_id = TASK_B1.id
    /\ resolved.text = REF_IT_QUOTED
    /\ resolved.result.task_id = TASK_B1.id

\* the place of user_id in the order of last accesses
AccessRank(user_id) == CHOOSE k \in 1..Len(access_order) : access_order[k] = user_id

\* C13: the tracker never holds more than _max_contexts contexts, and a
\* context evicted to make room was accessed (by recordMention or
\* resolveReference) less recently than every context kept, and is never
\* that of the user being accessed.
C13_EvictsLeastRecentlyAccessed ==
    /\ Len(_contexts) <= _max_contexts
    /\ \A k \in 1..Len(dropped.evicted) :
          /\ dropped.evicted[k] # dropped.by
          /\ \A u \in Tracked(_contexts) :
                AccessRank(dropped.evicted[k]) < AccessRank(u)

\* u1 came first, u2 second, u1 was accessed again, and the arrival of u3
\* evicted u2
C13_Witness ==
    /\ dropped.evicted = <<"u2">>
    /\ dropped.by = "u3"
    /\ "u1" \in Tracked(_contexts)
    /\ recorded["u1"] # <<>>
    /\ recorded["u2"] # <<>>
    /\ recorded["u1"][1].mentioned_at < recorded["u2"][1].mentioned_at

\* C14: a context idle for longer than the TTL is gone at the user's next
\* access, so that resolveReference returns none; and every context the TTL
\* rule purged had its last access (recordMention or resolveReference) more
\* than the TTL ago.
C14_PurgedOnlyWhenIdle ==
    /\ (resolved.user_id # None /\ resolved.last_access >= 0) =>
          (resolved.hour - resolved.last_access > _context_ttl =>
              resolved.result = NoReference)
    /\ \A p \in dropped.purged : clock - p.last_access > _context_ttl

\* the task-reference log a tracker shows for user_id at this hour
ShownLog(contexts, user_id) ==
    get_context(contexts, user_id, clock).context.task_references

\* C15: as long as no context was evicted for room, every user's log, and
\* what its resolveReference calls return, are what they are on a tracker
\* that received that user's calls only, at the same hours.
C15_UsersDoNotInterfere ==
    ~dropped.overflowed =>
        \A b \in Users :
            /\ ShownLog(_contexts, b) = ShownLog(alone[b].contexts, b)
            /\ resolved.user_id = b => resolved.result = alone[b].resolved

\* u1 recorded a mention and lost it again (cleared or expired), and the
\* resolveReference of u2 that followed returned the mention of u2
C15_Witness ==
    /\ ~dropped.overflowed
    /\ recorded["u1"] # <<>>
    /\ ShownLog(_contexts, "u1") = <<>>
    /\ dropped.by = "u2"
    /\ resolved.user_id = "u2"
    /\ resolved.hour = clock
    /\ resolved.result # NoReference

(***************************************************************************)
(* The text functions of AgentService, each applied to a text on its own.  *)
(***************************************************************************)
\* 'Add a task to buy milk'
MSG_ADD_A_TASK ==
    <<"A", "d", "d", " ", "a", " ", "t", "a", "s", "k", " ", "t", "o", " ",
      "b", "u", "y", " ", "m", "i", "l", "k">>

\* 'tasks'
MSG_TASKS ==
    <<"t", "a", "s", "k", "s">>

\* 'my tasks'
MSG_MY_TASKS ==
    <<"m", "y", " ", "t", "a", "s", "k", "s">>

\* 'task: buy milk'
MSG_TASK_COLON ==
    <<"t", "a", "s", "k", ":", " ", "b", "u", "y", " ", "m", "i", "l", "k">>

\* 'task add karo: tea'
MSG_TASK_ADD_KARO ==
    <<"t", "a", "s", "k", " ", "a", "d", "d", " ", "k", "a", "r", "o", ":",
      " ", "t", "e", "a">>

\* 'tea add karo'
MSG_TEA_ADD_KARO ==
    <<"t", "e", "a", " ", "a", "d", "d", " ", "k", "a", "r", "o">>

\* 'task milk ho gaya'
MSG_HO_GAYA ==
    <<"t", "a", "s", "k", " ", "m", "i", "l", "k", " ", "h", "o", " ", "g",
      "a", "y", "a">>

\* 'mark milk as done'
MSG_MARK_DONE ==
    <<"m", "a", "r", "k", " ", "m", "i", "l", "k", " ", "a", "s", " ", "d",
      "o", "n", "e">>

\* 'milk complete karo'
MSG_COMPLETE_KARO ==
    <<"m", "i", "l", "k", " ", "c", "o", "m", "p", "l", "e", "t", "e", " ",
      "k", "a", "r", "o">>

\* 'task milk hata do'
MSG_TASK_HATA ==
    <<"t", "a", "s", "k", " ", "m", "i", "l", "k", " ", "h", "a", "t", "a",
      " ", "d", "o">>

\* 'milk hata karo'
MSG_HATA_KARO ==
    <<"m", "i", "l", "k", " ", "h", "a", "t", "a", " ", "k", "a", "r", "o">>

\* 'mere tasks dikhao'
MSG_TASKS_DIKHAO ==
    <<"m", "e", "r", "e", " ", "t", "a", "s", "k", "s", " ", "d", "i", "k",
      "h", "a", "o">>

\* 'how many tasks pending'
MSG_HOW_MANY ==
    <<"h", "o", "w", " ", "m", "a", "n", "y", " ", "t", "a", "s", "k", "s",
      " ", "p", "e", "n", "d", "i", "n", "g">>

\* '  All set. '
TXT_PADDED ==
    <<" ", " ", "A", "l", "l", " ", "s", "e", "t", ".", " ">>

\* 'Done.\n\n\nNext.'
TXT_BLANK_LINES ==
    <<"D", "o", "n", "e", ".", "\n", "\n", "\n", "N", "e", "x", "t", ".">>

\* 'Done.\n \nNext.'
TXT_SPACED_LINE ==
    <<"D", "o", "n", "e", ".", "\n", " ", "\n", "N", "e", "x", "t", ".">>

\* 'Done.\nNext.'
TXT_TWO_LINES ==
    <<"D", "o", "n", "e", ".", "\n", "N", "e", "x", "t", ".">>

\* <function=add_task><parameter=title>Tea</function>: no </parameter>
TXT_PARAM_UNCLOSED ==
    FUNC_EQ \o NameChars["add_task"] \o <<">">> \o PARAM_EQ \o NameChars["title"]
        \o <<">">> \o TITLE_TEA \o FUNC_CLOSE

\* <tool_call><function=add_task><parameter=title>Tea</parameter></tool_call>:
\* no </function>
TXT_FUNCTION_UNCLOSED ==
    TOOL_OPEN \o FUNC_EQ \o NameChars["add_task"] \o <<">">> \o PARAM_EQ
        \o NameChars["title"] \o <<">">> \o TITLE_TEA \o PARAM_CLOSE \o TOOL_CLOSE

\* <tool_call><function=add_task><parameter=title>Tea</parameter></function>:
\* no </tool_call>
TXT_TOOL_CALL_UNCLOSED ==
    TOOL_OPEN \o TextCall("add_task", "title", TITLE_TEA)

\* the user messages, each with the intent it is written for
Written ==
    { [text |-> MSG_ADD_A_TASK, tool |-> "add_task", params |-> [title |-> TITLE_MILK]],
      [text |-> MSG_ADD, tool |-> "add_task", params |-> [title |-> TITLE_TEA]],
      [text |-> MSG_TASK_COLON, tool |-> "add_task", params |-> [title |-> TITLE_MILK]],
      [text |-> MSG_TASK_ADD_KARO, tool |-> "add_task", params |-> [title |-> TITLE_TEA]],
      [text |-> MSG_TEA_ADD_KARO, tool |-> "add_task", params |-> [title |-> TITLE_TEA]],
      [text |-> MSG_TASKS, tool |-> "list_tasks", params |-> EmptyDict],
      [text |-> MSG_MY_TASKS, tool |-> "list_tasks", params |-> EmptyDict],
      [text |-> MSG_LIST, tool |-> "list_tasks", params |-> EmptyDict],
      [text |-> MSG_TASKS_DIKHAO, tool |-> "list_tasks", params |-> EmptyDict],
      [text |-> MSG_COMPLETE, tool |-> "complete_task",
       params |-> [task_ref |-> <<"m", "i", "l", "k">>]],
      [text |-> MSG_MARK_DONE, tool |-> "complete_task",
       params |-> [task_ref |-> <<"m", "i", "l", "k">>]],
      [text |-> MSG_HO_GAYA, tool |-> "complete_task",
       params |-> [task_ref |-> <<"m", "i", "l", "k">>]],
      [text |-> MSG_COMPLETE_KARO, tool |-> "complete_task",
       params |-> [task_ref |-> <<"m", "i", "l", "k">>]],
      [text |-> MSG_DELETE, tool |-> "delete_task",
       params |-> [task_ref |-> <<"m", "i", "l", "k">>]],
      [text |-> MSG_TASK_HATA, tool |-> "delete_task",
       params |-> [task_ref |-> <<"m", "i", "l", "k">>]],
      [text |-> MSG_HATA_KARO, tool |-> "delete_task",
       params |-> [task_ref |-> <<"m", "i", "l", "k">>]],
      [text |-> MSG_DELETE_ALL, tool |-> "delete_all", params |-> EmptyDict],
      [text |-> MSG_STATS, tool |-> "get_analytics", params |-> EmptyDict],
      [text |-> MSG_HOW_MANY, tool |-> "get_analytics", params |-> EmptyDict],
      [text |-> MSG_HELLO, tool |-> None, params |-> EmptyDict] }

\* the texts a model returns as message.content
Contents ==
    {TXT_PLAIN, TXT_ONE_CALL, TXT_UNCLOSED, TXT_NESTED, TXT_PAIRED,
     TXT_PARAM_UNCLOSED, TXT_FUNCTION_UNCLOSED, TXT_TOOL_CALL_UNCLOSED,
     TXT_PADDED, TXT_BLANK_LINES, TXT_SPACED_LINE, TXT_TWO_LINES, TXT_LESS_THAN}

Subjects == {w.text : w \in Written} \cup Contents

InitFn ==
    /\ _tools = EmptyRegistry
    /\ registrations = <<>>
    /\ looked_up = None
    /\ TurnParked
    /\ NoTracker
    /\ NoService
    /\ subject \in Subjects
    /\ applied = EmptyDict

\* history: function fn returned value for the subject
Applies(fn, value) ==
    /\ fn \notin DOMAIN applied
    /\ applied' = (fn :> value) @@ applied
    /\ UNCHANGED <<subject, regVars, turnVars, ctxVars, sugVars, tmVars>>

\* the detector is given the user's message, never the model's content
detect_intent ==
    /\ subject \in {w.text : w \in Written}
    /\ Applies("_detect_intent", _detect_intent(subject))

\* the sanitizer is given the texts that hold no markup; how it treats markup
\* is exercised by ReturnOutcome in the chat turn
sanitize_response ==
    /\ ~HasMarkup(subject)
    /\ Applies("_sanitize_response", _sanitize_response(subject))

parse_text_tool_calls ==
    Applies("_parse_text_tool_calls", _parse_text_tool_calls(subject))

NextFn == detect_intent \/ sanitize_response \/ parse_text_tool_calls

SpecFn == InitFn /\ [][NextFn]_vars

\* the intent the subject is written for
WrittenFor == CHOOSE w \in Written : w.text = subject

\* C16: no earlier, more generic template captures a message written for a
\* later one: each message is detected with the tool of the intent it is
\* written for, and with the title or task reference it carries.
C16_NotCapturedByCatchAll ==
    ("_detect_intent" \in DOMAIN applied /\ subject \in {w.text : w \in Written}) =>
        /\ applied["_detect_intent"].tool = WrittenFor.tool
        /\ applied["_detect_intent"].params = WrittenFor.params

\* the pseudo-call texts, whole or with a closing marker left out, each with
\* the calls it is written for
WrittenCalls ==
    LET add_tea == <<[name |-> "add_task", arguments |-> [title |-> TITLE_TEA]]>>
    IN  { [text |-> TXT_ONE_CALL, calls |-> add_tea],
          [text |-> TXT_TOOL_CALL_UNCLOSED, calls |-> add_tea],
          [text |-> TXT_PARAM_UNCLOSED, calls |-> add_tea],
          [text |-> TXT_FUNCTION_UNCLOSED, calls |-> add_tea] }

\* C18: a pseudo-call emitted as text is recovered with its function name
\* and its key/value parameters, also when a closing marker (</function>,
\* </parameter>, </tool_call>) is left out.
C18_RecoversDespiteMissingClosers ==
    \A w \in WrittenCalls :
        (subject = w.text /\ "_parse_text_tool_calls" \in DOMAIN applied) =>
            applied["_parse_text_tool_calls"] = w.calls

\* ---------------------------------------------------------------------
\* Resolution of a task reference in the rule-based path
\* ---------------------------------------------------------------------

\* the reference the detector took from the user's message
TaskRef == local.detected_params.task_ref

HoldsRef(title) == Contains(Lower(title), Lower(TaskRef))

\* the stored tasks whose title holds the reference
Matching == {t \in store : HoldsRef(t.title)}

\* the positions of the listing whose title holds the reference
ListedMatches == {k \in 1..Len(local.tasks) : HoldsRef(local.tasks[k].title)}

NoIntentReturned ==
    /\ pc = "done"
    /\ outcome.kind = "returned"
    /\ local.tier = 3
    /\ local.detected
    /\ local.detected_tool = None

\* C19: when no tier produces a call and no intent is detected, the reply is
\* the model's own text if that text is non-empty and free of pseudo-call
\* markup, and the help message otherwise; no tool is executed and the
\* tool_calls list is empty.
C19_FreeTextOrHelp ==
    NoIntentReturned =>
        LET content == assistant_message.content
        IN  /\ outcome.response =
                  IF content = <<>> \/ HasMarkup(content) THEN HELP ELSE content
            /\ outcome.tool_calls = <<>>
            /\ invoked = <<>>

\* ---------------------------------------------------------------------
\* Sanitizing a text that holds no markup
\* ---------------------------------------------------------------------

\* the text holds <tool_call>, </tool_call>, or the opening of a function or
\* parameter tag
HoldsMarker(text) ==
    \E marker \in {TOOL_OPEN, TOOL_CLOSE, FUNC_BARE, FUNC_CLOSE_BARE,
                   PARAM_BARE, PARAM_CLOSE_BARE} : Contains(text, marker)

\* the subject holds no markup and has been sanitized
PlainSanitized ==
    /\ ~HoldsMarker(subject)
    /\ "_sanitize_response" \in DOMAIN applied

\* the characters of the text that are not whitespace, in order
Inked(text) == SelectSeq(text, LAMBDA c : ~IsSpace(c))

\* two line ends of the text with nothing but whitespace between them that
\* are not next to each other
HasBlankRun(text) ==
    \E i, j \in 1..Len(text) :
        /\ i + 1 < j
        /\ text[i] = "\n" /\ text[j] = "\n"
        /\ \A k \in (i + 1)..(j - 1) : IsSpace(text[k])

\* whitespace begins or ends the text
IsPadded(text) ==
    text # <<>> /\ (IsSpace(text[1]) \/ IsSpace(text[Len(text)]))

\* C20 as stated: sanitizing a text without markup returns it unchanged,
\* whitespace at its ends and runs of blank lines included.
C20_PlainTextUnchanged ==
    PlainSanitized => applied["_sanitize_response"] = subject

\* C20 amended: sanitizing a text without markup changes whitespace only:
\* the result has the text's other characters in order, no whitespace at
\* its ends and no run of blank lines, and a text that had neither to begin
\* with is returned unchanged.
C20_PlainTextNormalized ==
    PlainSanitized =>
        LET result == applied["_sanitize_response"]
        IN  /\ Inked(result) = Inked(subject)
            /\ ~IsPadded(result)
            /\ ~HasBlankRun(result)
            /\ (~IsPadded(subject) /\ ~HasBlankRun(subject)) => result = subject

\* a text of three line ends in a row has been sanitized to another text
C20_Witness ==
    /\ PlainSanitized
    /\ HasBlankRun(subject)
    /\ applied["_sanitize_response"] # subject

(***************************************************************************)
(* Natural language date parser (phase 3 backend, utils/date_parser.py).   *)
(*                                                                         *)
(* A datetime is the record of its year, month, day, hour and minute; a    *)
(* confidence is written in hundredths (0.95 is 95).  The letters of the   *)
(* Urdu words are atoms named by their code points.                        *)
(***************************************************************************)
\* the letters of the Urdu script, which \w of the patterns matches as well
UrduLetters ==
    {"U+0622", "U+0627", "U+062A", "U+062C", "U+062F", "U+0631", "U+0633",
     "U+0641", "U+0644", "U+0646", "U+0648", "U+067E", "U+06A9", "U+06AF",
     "U+06BA", "U+06C1", "U+06D2"}

\* \w of the date patterns, which are applied to text that holds digits
IsWordChar(c) == c \in Letters \cup UpperLetters \cup Digits \cup {"_"} \cup UrduLetters

\* length of the longest run of \w starting at i
RECURSIVE WordCharRun(_, _)
WordCharRun(s, i) ==
    IF i <= Len(s) /\ IsWordChar(s[i]) THEN 1 + WordCharRun(s, i + 1) ELSE 0

\* length of the longest run of \d starting at i
RECURSIVE DigitRun(_, _)
DigitRun(s, i) ==
    IF i <= Len(s) /\ s[i] \in Digits THEN 1 + DigitRun(s, i + 1) ELSE 0

DigitValue(c) == IF c = "0" THEN 0 ELSE CHOOSE v \in 1..9 : DigitSeq[v] = c

\* int() of the n digits of s starting at i
RECURSIVE IntAt(_, _, _)
IntAt(s, i, n) ==
    IF n = 0 THEN 0
    ELSE IntAt(s, i, n - 1) * 10 + DigitValue(s[i + n - 1])

\* the date None of a DateParseResult
NoDate == [year |-> 0, month |-> 0, day |-> 0, hour |-> 0, minute |-> 0]

DateParseResult(date, original_text, confidence) ==
    [date |-> date, original_text |-> original_text, confidence |-> confidence]

\* DAY_NAMES, in the order of the dict
DAY_NAMES ==
    << [name |-> <<"m", "o", "n", "d", "a", "y">>, weekday |-> 0]
     , [name |-> <<"m", "o", "n">>, weekday |-> 0]
     , [name |-> <<"t", "u", "e", "s", "d", "a", "y">>, weekday |-> 1]
     , [name |-> <<"t", "u", "e">>, weekday |-> 1]
     , [name |-> <<"t", "u", "e", "s">>, weekday |-> 1]
     , [name |-> <<"w", "e", "d", "n", "e", "s", "d", "a", "y">>, weekday |-> 2]
     , [name |-> <<"w", "e", "d">>, weekday |-> 2]
     , [name |-> <<"t", "h", "u", "r", "s", "d", "a", "y">>, weekday |-> 3]
     , [name |-> <<"t", "h", "u">>, weekday |-> 3]
     , [name |-> <<"t", "h", "u", "r">>, weekday |-> 3]
     , [name |-> <<"t", "h", "u", "r", "s">>, weekday |-> 3]
     , [name |-> <<"f", "r", "i", "d", "a", "y">>, weekday |-> 4]
     , [name |-> <<"f", "r", "i">>, weekday |-> 4]
     , [name |-> <<"s", "a", "t", "u", "r", "d", "a", "y">>, weekday |-> 5]
     , [name |-> <<"s", "a", "t">>, weekday |-> 5]
     , [name |-> <<"s", "u", "n", "d", "a", "y">>, weekday |-> 6]
     , [name |-> <<"s", "u", "n">>, weekday |-> 6]
     , [name |-> <<"p", "e", "e", "r">>, weekday |-> 0]
     , [name |-> <<"p", "i", "r">>, weekday |-> 0]
     , [name |-> <<"s", "o", "m", "w", "a", "r">>, weekday |-> 0]
     , [name |-> <<"m", "a", "n", "g", "a", "l">>, weekday |-> 1]
     , [name |-> <<"b", "u", "d", "h">>, weekday |-> 2]
     , [name |-> <<"j", "u", "m", "e", "r", "a", "t">>, weekday |-> 3]
     , [name |-> <<"j", "u", "m", "e", "r", "a", "a", "t">>, weekday |-> 3]
     , [name |-> <<"j", "u", "m", "a">>, weekday |-> 4]
     , [name |-> <<"j", "u", "m", "m", "a">>, weekday |-> 4]
     , [name |-> <<"h", "a", "f", "t", "a">>, weekday |-> 5]
     , [name |-> <<"s", "a", "n", "e", "e", "c", "h", "a", "r">>, weekday |-> 5]
     , [name |-> <<"s", "a", "n", "i", "c", "h", "a", "r">>, weekday |-> 5]
     , [name |-> <<"i", "t", "w", "a", "r">>, weekday |-> 6]
     , [name |-> <<"i", "t", "w", "a", "a", "r">>, weekday |-> 6] >>

\* RELATIVE_DATES, in the order of the dict
RELATIVE_DATES ==
    << [pattern |-> <<"t", "o", "d", "a", "y">>, days |-> 0]
     , [pattern |-> <<"t", "o", "d">>, days |-> 0]
     , [pattern |-> <<"t", "o", "m", "o", "r", "r", "o", "w">>, days |-> 1]
     , [pattern |-> <<"t", "m", "r", "w">>, days |-> 1]
     , [pattern |-> <<"t", "m", "r">>, days |-> 1]
     , [pattern |-> <<"t", "o", "m">>, days |-> 1]
     , [pattern |-> <<"d", "a", "y", " ", "a", "f", "t", "e", "r", " ", "t", "o", "m", "o", "r", "r", "o", "w">>, days |-> 2]
     , [pattern |-> <<"y", "e", "s", "t", "e", "r", "d", "a", "y">>, days |-> -1]
     , [pattern |-> <<"a", "a", "j">>, days |-> 0]
     , [pattern |-> <<"a", "j">>, days |-> 0]
     , [pattern |-> <<"k", "a", "l">>, days |-> 1]
     , [pattern |-> <<"p", "a", "r", "s", "o", "n">>, days |-> 2]
     , [pattern |-> <<"p", "a", "r", "s", "o">>, days |-> 2]
     , [pattern |-> <<"a", "g", "l", "a", " ", "d", "i", "n">>, days |-> 1]
     , [pattern |-> <<"U+0622", "U+062C">>, days |-> 0]
     , [pattern |-> <<"U+06A9", "U+0644">>, days |-> 1]
     , [pattern |-> <<"U+067E", "U+0631", "U+0633", "U+0648", "U+06BA">>, days |-> 2] >>

\* WEEK_EXPRESSIONS, in the order of the dict; none marks the value None
WEEK_EXPRESSIONS ==
    << [pattern |-> <<"n", "e", "x", "t", " ", "w", "e", "e", "k">>, days |-> 7, none |-> FALSE]
     , [pattern |-> <<"t", "h", "i", "s", " ", "w", "e", "e", "k">>, days |-> 0, none |-> FALSE]
     , [pattern |-> <<"i", "n", " ", "a", " ", "w", "e", "e", "k">>, days |-> 7, none |-> FALSE]
     , [pattern |-> <<"i", "n", " ", "2", " ", "w", "e", "e", "k", "s">>, days |-> 14, none |-> FALSE]
     , [pattern |-> <<"i", "n", " ", "t", "w", "o", " ", "w", "e", "e", "k", "s">>, days |-> 14, none |-> FALSE]
     , [pattern |-> <<"e", "n", "d", " ", "o", "f", " ", "w", "e", "e", "k">>, days |-> 0, none |-> TRUE]
     , [pattern |-> <<"e", "n", "d", " ", "o", "f", " ", "m", "o", "n", "t", "h">>, days |-> 0, none |-> TRUE]
     , [pattern |-> <<"n", "e", "x", "t", " ", "q", "u", "a", "r", "t", "e", "r">>, days |-> 0, none |-> TRUE]
     , [pattern |-> <<"a", "g", "l", "a", "y", " ", "h", "a", "f", "t", "a">>, days |-> 7, none |-> FALSE]
     , [pattern |-> <<"a", "g", "l", "a", "y", " ", "h", "a", "f", "t", "e">>, days |-> 7, none |-> FALSE]
     , [pattern |-> <<"a", "g", "l", "i", " ", "w", "e", "e", "k">>, days |-> 7, none |-> FALSE]
     , [pattern |-> <<"i", "s", " ", "h", "a", "f", "t", "a">>, days |-> 0, none |-> FALSE]
     , [pattern |-> <<"i", "s", " ", "h", "a", "f", "t", "e">>, days |-> 0, none |-> FALSE]
     , [pattern |-> <<"U+0627", "U+06AF", "U+0644", "U+06D2", " ", "U+06C1", "U+0641", "U+062A", "U+06D2">>, days |-> 7, none |-> FALSE]
     , [pattern |-> <<"U+0627", "U+0633", " ", "U+06C1", "U+0641", "U+062A", "U+06D2">>, days |-> 0, none |-> FALSE] >>

\* TIME_OF_DAY, in the order of the dict
TIME_OF_DAY ==
    << [expr |-> <<"m", "o", "r", "n", "i", "n", "g">>, hour |-> 9, minute |-> 0]
     , [expr |-> <<"a", "f", "t", "e", "r", "n", "o", "o", "n">>, hour |-> 14, minute |-> 0]
     , [expr |-> <<"e", "v", "e", "n", "i", "n", "g">>, hour |-> 18, minute |-> 0]
     , [expr |-> <<"n", "i", "g", "h", "t">>, hour |-> 21, minute |-> 0]
     , [expr |-> <<"n", "o", "o", "n">>, hour |-> 12, minute |-> 0]
     , [expr |-> <<"m", "i", "d", "n", "i", "g", "h", "t">>, hour |-> 0, minute |-> 0]
     , [expr |-> <<"s", "u", "b", "a", "h">>, hour |-> 9, minute |-> 0]
     , [expr |-> <<"d", "o", "p", "e", "h", "a", "r">>, hour |-> 14, minute |-> 0]
     , [expr |-> <<"s", "h", "a", "a", "m">>, hour |-> 18, minute |-> 0]
     , [expr |-> <<"r", "a", "a", "t">>, hour |-> 21, minute |-> 0] >>

\* DAY_NAMES[day_name], -1 when day_name is not a key
RECURSIVE DayLookup(_, _)
DayLookup(day_name, k) ==
    IF k > Len(DAY_NAMES) THEN -1
    ELSE IF DAY_NAMES[k].name = day_name THEN DAY_NAMES[k].weekday
    ELSE DayLookup(day_name, k + 1)

\* the variant that takes a target falling on from_date as already reached
_get_next_weekday_keeps_today(target_weekday, from_date) ==
    LET days_ahead == target_weekday - weekday(from_date)
    IN timedelta(from_date, IF days_ahead < 0 THEN days_ahead + 7 ELSE days_ahead)

_get_next_weekday(target_weekday, from_date) ==
    LET days_ahead == target_weekday - weekday(from_date)
    IN timedelta(from_date, IF days_ahead <= 0 THEN days_ahead + 7 ELSE days_ahead)

\* index of the first entry of the table whose pattern occurs in the text,
\* 0 when none does
RECURSIVE FirstContained(_, _, _)
FirstContained(table, text, k) ==
    IF k > Len(table) THEN 0
    ELSE IF Contains(text, table[k].pattern) THEN k
    ELSE FirstContained(table, text, k + 1)

\* re.search(keyword\s+(\w+), s) from position i on: group 1 of the leftmost
\* match, <<>> when there is no match
RECURSIVE KeywordWord(_, _, _)
KeywordWord(s, keyword, i) ==
    LET at == FindLit(s, i, keyword)
        sp == SpaceRun(s, at + Len(keyword))
        first == at + Len(keyword) + sp
        n == WordCharRun(s, first)
    IN IF at = 0 THEN <<>>
       ELSE IF sp >= 1 /\ n >= 1 THEN SubSeq(s, first, first + n - 1)
       ELSE KeywordWord(s, keyword, at + 1)

\* the loop over next_patterns or this_patterns: the weekday named after the
\* first keyword whose leftmost match is followed by a key of DAY_NAMES,
\* -1 when no keyword has one
RECURSIVE KeywordDay(_, _, _)
KeywordDay(s, keywords, k) ==
    IF k > Len(keywords) THEN -1
    ELSE LET day_name == KeywordWord(s, keywords[k], 1)
         IN IF day_name # <<>> /\ DayLookup(day_name, 1) >= 0
            THEN DayLookup(day_name, 1)
            ELSE KeywordDay(s, keywords, k + 1)

next_patterns ==
    << <<"n", "e", "x", "t">>, <<"a", "g", "l", "a">>,
       <<"a", "g", "l", "i">>, <<"a", "g", "l", "e">> >>

this_patterns == << <<"t", "h", "i", "s">>, <<"i", "s">>, <<"y", "e">> >>

WORD_DAY == <<"d", "a", "y">>
WORD_IN == <<"i", "n">>
WORD_DIN == <<"d", "i", "n">>
WORD_DIN_URDU == <<"U+062F", "U+0646">>
WORD_FROM_NOW == <<"f", "r", "o", "m", " ", "n", "o", "w">>
WORD_LATER == <<"l", "a", "t", "e", "r">>

\* in\s+(\d+)\s*days?  matched at position i: the number, -1 without a match
InDaysAt(s, i) ==
    LET sp == SpaceRun(s, i + 2)
        first == i + 2 + sp
        n == DigitRun(s, first)
    IN IF Lit(s, i, WORD_IN) /\ sp >= 1 /\ n >= 1
          /\ Lit(s, first + n + SpaceRun(s, first + n), WORD_DAY)
       THEN IntAt(s, first, n)
       ELSE -1

\* (\d+)\s*days?\s+(?:from now|later)  matched at position i
DaysLaterAt(s, i) ==
    LET n == DigitRun(s, i)
        day == i + n + SpaceRun(s, i + n)
        after == IF Lit(s, day + 3, <<"s">>) THEN day + 4 ELSE day + 3
        sp == SpaceRun(s, after)
    IN IF n >= 1 /\ Lit(s, day, WORD_DAY) /\ sp >= 1
          /\ (Lit(s, after + sp, WORD_FROM_NOW) \/ Lit(s, after + sp, WORD_LATER))
       THEN IntAt(s, i, n)
       ELSE -1

\* (\d+)\s*word, with whatever follows optional, matched at position i
DigitsWordAt(s, i, word) ==
    LET n == DigitRun(s, i)
    IN IF n >= 1 /\ Lit(s, i + n + SpaceRun(s, i + n), word)
       THEN IntAt(s, i, n)
       ELSE -1

InDaysPatternAt(s, k, i) ==
    CASE k = 1 -> InDaysAt(s, i)
      [] k = 2 -> DaysLaterAt(s, i)
      [] k = 3 -> DigitsWordAt(s, i, WORD_DIN)
      [] k = 4 -> DigitsWordAt(s, i, WORD_DIN_URDU)

\* re.search of the k-th of in_days_patterns: group 1 of the leftmost match
RECURSIVE InDaysSearch(_, _, _)
InDaysSearch(s, k, i) ==
    IF i > Len(s) THEN -1
    ELSE IF InDaysPatternAt(s, k, i) >= 0 THEN InDaysPatternAt(s, k, i)
    ELSE InDaysSearch(s, k, i + 1)

\* the loop over in_days_patterns
RECURSIVE InDays(_, _)
InDays(s, k) ==
    IF k > 4 THEN -1
    ELSE IF InDaysSearch(s, k, 1) >= 0 THEN InDaysSearch(s, k, 1)
    ELSE InDays(s, k + 1)

\* re.search(\bname\b, s)
RECURSIVE Standalone(_, _, _)
Standalone(s, name, i) ==
    LET at == FindLit(s, i, name)
        end == at + Len(name) - 1
    IN IF at = 0 THEN FALSE
       ELSE IF (at = 1 \/ ~IsWordChar(s[at - 1]))
               /\ (end = Len(s) \/ ~IsWordChar(s[end + 1]))
       THEN TRUE
       ELSE Standalone(s, name, at + 1)

\* the loop over DAY_NAMES: index of the first name standing alone in the
\* text, 0 when there is none
RECURSIVE FirstStandalone(_, _)
FirstStandalone(s, k) ==
    IF k > Len(DAY_NAMES) THEN 0
    ELSE IF Standalone(s, DAY_NAMES[k].name, 1) THEN k
    ELSE FirstStandalone(s, k + 1)

\* (\d{4})-(\d{1,2})-(\d{1,2}) matched at position i: the three numbers
IsoAt(s, i) ==
    LET m == DigitRun(s, i + 5)
        d == Min2(DigitRun(s, i + 6 + m), 2)
    IN IF DigitRun(s, i) >= 4 /\ Lit(s, i + 4, <<"-">>) /\ m \in {1, 2}
          /\ Lit(s, i + 5 + m, <<"-">>) /\ d >= 1
       THEN <<IntAt(s, i, 4), IntAt(s, i + 5, m), IntAt(s, i + 6 + m, d)>>
       ELSE <<>>

RECURSIVE IsoSearch(_, _)
IsoSearch(s, i) ==
    IF i > Len(s) THEN <<>>
    ELSE IF IsoAt(s, i) # <<>> THEN IsoAt(s, i)
    ELSE IsoSearch(s, i + 1)

IsSep(s, i) == i <= Len(s) /\ s[i] \in {"/", "-"}

\* (\d{1,2})[/\-](\d{1,2})(?:[/\-](\d{2,4}))? matched at position i: the
\* numbers of groups 1 and 2 and the year, -1 when group 3 did not take part
DatePatternAt(s, i) ==
    LET run == DigitRun(s, i)
        a == IF run >= 2 /\ IsSep(s, i + 2) THEN 2
             ELSE IF run >= 1 /\ IsSep(s, i + 1) THEN 1
             ELSE 0
        b == Min2(DigitRun(s, i + a + 1), 2)
        y == Min2(DigitRun(s, i + a + b + 2), 4)
    IN IF a >= 1 /\ b >= 1
       THEN <<IntAt(s, i, a), IntAt(s, i + a + 1, b),
              IF IsSep(s, i + a + b + 1) /\ y >= 2
              THEN IntAt(s, i + a + b + 2, y) ELSE -1>>
       ELSE <<>>

RECURSIVE DatePatternSearch(_, _)
DatePatternSearch(s, i) ==
    IF i > Len(s) THEN <<>>
    ELSE IF DatePatternAt(s, i) # <<>> THEN DatePatternAt(s, i)
    ELSE DatePatternSearch(s, i + 1)

END_OF_WEEK == <<"e", "n", "d", " ", "o", "f", " ", "w", "e", "e", "k">>
END_OF_MONTH == <<"e", "n", "d", " ", "o", "f", " ", "m", "o", "n", "t", "h">>
NEXT_QUARTER == <<"n", "e", "x", "t", " ", "q", "u", "a", "r", "t", "e", "r">>

\* timedelta(days=None) raises TypeError
TypeError == [date |-> NoDate, original_text |-> <<>>, confidence |-> -1]

\* the last two checks of parse_natural_date, on the text as it was given
CalendarDate(text, reference_date) ==
    LET iso == IsoSearch(text, 1)
        match == DatePatternSearch(text, 1)
        year == IF match[3] = -1 THEN reference_date.year
                ELSE IF match[3] < 100 THEN match[3] + 2000
                ELSE match[3]
        month == IF match[1] <= 12 THEN match[1] ELSE match[2]
        day == IF match[1] <= 12 THEN match[2] ELSE match[1]
    IN IF iso # <<>> /\ IsDate(iso[1], iso[2], iso[3])
       THEN DateParseResult(datetime(iso[1], iso[2], iso[3]), text, 100)
       ELSE IF match # <<>> /\ IsDate(year, month, day)
       THEN DateParseResult(datetime(year, month, day), text, 80)
       ELSE DateParseResult(NoDate, text, 0)

parse_natural_date(text, reference_date) ==
    LET text_lower == Strip(Lower(text))
        original_text == text
        days_until_sunday == 6 - weekday(reference_date)
        last_day == monthrange(reference_date.year, reference_date.month)
        current_quarter == (reference_date.month - 1) \div 3
        next_quarter_month == ((current_quarter + 1) % 4) * 3 + 1
        next_quarter_year == IF next_quarter_month > reference_date.month
                             THEN reference_date.year
                             ELSE reference_date.year + 1
        relative == FirstContained(RELATIVE_DATES, text_lower, 1)
        week == FirstContained(WEEK_EXPRESSIONS, text_lower, 1)
        next_day == KeywordDay(text_lower, next_patterns, 1)
        this_day == KeywordDay(text_lower, this_patterns, 1)
        days_diff == this_day - weekday(reference_date)
        days == InDays(text_lower, 1)
        standalone == FirstStandalone(text_lower, 1)
    IN IF Contains(text_lower, END_OF_WEEK)
       THEN DateParseResult(
                [timedelta(reference_date,
                           IF days_until_sunday < 0 THEN 0 ELSE days_until_sunday)
                    EXCEPT !.hour = 23, !.minute = 59],
                original_text, 90)
       ELSE IF Contains(text_lower, END_OF_MONTH)
       THEN DateParseResult(
                [reference_date EXCEPT !.day = last_day, !.hour = 23, !.minute = 59],
                original_text, 90)
       ELSE IF Contains(text_lower, NEXT_QUARTER)
       THEN DateParseResult(datetime(next_quarter_year, next_quarter_month, 1),
                            original_text, 85)
       ELSE IF relative > 0
       THEN DateParseResult(timedelta(reference_date, RELATIVE_DATES[relative].days),
                            original_text, 95)
       ELSE IF week > 0
       THEN IF WEEK_EXPRESSIONS[week].none THEN TypeError
            ELSE DateParseResult(timedelta(reference_date, WEEK_EXPRESSIONS[week].days),
                                 original_text, 90)
       ELSE IF next_day >= 0
       THEN DateParseResult(_get_next_weekday(next_day, reference_date),
                            original_text, 90)
       ELSE IF this_day >= 0
       THEN DateParseResult(
                timedelta(reference_date, IF days_diff < 0 THEN 0 ELSE days_diff),
                original_text, 85)
       ELSE IF days >= 0
       THEN DateParseResult(timedelta(reference_date, days), original_text, 90)
       ELSE IF standalone > 0
       THEN DateParseResult(
                _get_next_weekday(DAY_NAMES[standalone].weekday, reference_date),
                original_text, 70)
       ELSE CalendarDate(original_text, reference_date)

\* datetime.replace(hour=hour, minute=minute) raises ValueError unless the
\* hour and the minute exist
ValueError == [date |-> NoDate, original_text |-> <<>>, confidence |-> -2]

\* the time None of parse_time_from_text
NoTime == [hour |-> -1, minute |-> -1]

\* index of the first entry of TIME_OF_DAY whose name occurs in the text
RECURSIVE FirstPeriod(_, _)
FirstPeriod(text, k) ==
    IF k > Len(TIME_OF_DAY) THEN 0
    ELSE IF Contains(text, TIME_OF_DAY[k].expr) THEN k
    ELSE FirstPeriod(text, k + 1)

\* (am|pm|a\.m\.|p\.m\.) at position i: "a", "p" or "" for no match
Meridiem(s, i) ==
    IF Lit(s, i, <<"a", "m">>) \/ Lit(s, i, <<"a", ".", "m", ".">>) THEN "a"
    ELSE IF Lit(s, i, <<"p", "m">>) \/ Lit(s, i, <<"p", ".", "m", ".">>) THEN "p"
    ELSE ""

\* the normalisation of a 12-hour clock
Hour24(hour, is_pm) ==
    IF is_pm /\ hour # 12 THEN hour + 12
    ELSE IF ~is_pm /\ hour = 12 THEN 0
    ELSE hour

\* (\d{1,2}):?(\d{2})?\s*(am|pm|a\.m\.|p\.m\.) at position i with a first
\* group of n digits
ClockAtWith(s, i, n) ==
    LET colon == IF Lit(s, i + n, <<":">>) THEN 1 ELSE 0
        m == IF DigitRun(s, i + n + colon) >= 2 THEN 2 ELSE 0
        rest == i + n + colon + m
        half == Meridiem(s, rest + SpaceRun(s, rest))
    IN IF DigitRun(s, i) >= n /\ half # ""
       THEN [hour |-> Hour24(IntAt(s, i, n), half = "p"),
             minute |-> IF m = 2 THEN IntAt(s, i + n + colon, 2) ELSE 0]
       ELSE NoTime

ClockAt(s, i) ==
    IF ClockAtWith(s, i, 2) # NoTime THEN ClockAtWith(s, i, 2)
    ELSE ClockAtWith(s, i, 1)

\* (\d{1,2}):(\d{2}) at position i
ColonAt(s, i) ==
    LET n == IF DigitRun(s, i) >= 2 /\ Lit(s, i + 2, <<":">>) THEN 2
             ELSE IF DigitRun(s, i) >= 1 /\ Lit(s, i + 1, <<":">>) THEN 1
             ELSE 0
    IN IF n >= 1 /\ DigitRun(s, i + n + 1) >= 2
       THEN [hour |-> IntAt(s, i, n), minute |-> IntAt(s, i + n + 1, 2)]
       ELSE NoTime

\* (\d{1,2})\s*(am|pm|a\.m\.|p\.m\.) at position i with a group of n digits
HourAtWith(s, i, n) ==
    LET half == Meridiem(s, i + n + SpaceRun(s, i + n))
    IN IF DigitRun(s, i) >= n /\ half # ""
       THEN [hour |-> Hour24(IntAt(s, i, n), half = "p"), minute |-> 0]
       ELSE NoTime

HourAt(s, i) ==
    IF HourAtWith(s, i, 2) # NoTime THEN HourAtWith(s, i, 2)
    ELSE HourAtWith(s, i, 1)

TimePatternAt(s, k, i) ==
    CASE k = 1 -> ClockAt(s, i)
      [] k = 2 -> ColonAt(s, i)
      [] k = 3 -> HourAt(s, i)

\* re.search of the k-th of time_patterns
RECURSIVE TimeSearch(_, _, _)
TimeSearch(s, k, i) ==
    IF i > Len(s) THEN NoTime
    ELSE IF TimePatternAt(s, k, i) # NoTime THEN TimePatternAt(s, k, i)
    ELSE TimeSearch(s, k, i + 1)

\* the loop over time_patterns
RECURSIVE TimePatterns(_, _)
TimePatterns(s, k) ==
    IF k > 3 THEN NoTime
    ELSE IF TimeSearch(s, k, 1) # NoTime THEN TimeSearch(s, k, 1)
    ELSE TimePatterns(s, k + 1)

parse_time_from_text(text) ==
    LET text_lower == Strip(Lower(text))
        period == FirstPeriod(text_lower, 1)
    IN IF period > 0
       THEN [hour |-> TIME_OF_DAY[period].hour, minute |-> TIME_OF_DAY[period].minute]
       ELSE TimePatterns(text_lower, 1)

parse_date_and_time(text, reference_date) ==
    LET date_result == parse_natural_date(
                           text, [reference_date EXCEPT !.hour = 0, !.minute = 0])
        time_result == parse_time_from_text(text)
    IN IF date_result.date = NoDate THEN date_result
       ELSE IF time_result # NoTime
       THEN IF time_result.hour > 23 \/ time_result.minute > 59 THEN ValueError
            ELSE DateParseResult(
                [date_result.date EXCEPT !.hour = time_result.hour,
                                         !.minute = time_result.minute],
                date_result.original_text,
                Min2(date_result.confidence + 5, 100))
       ELSE date_result

\* texts that name a date in more than one form, or in none
MixedTexts ==
    {<<"2", "0", "2", "4", "-", "0", "3", "-", "1", "5">>,
     <<"2", "0", "2", "4", "-", "0", "3", "-", "1", "5", " ", "t", "o", "m", "o", "r", "r", "o", "w">>,
     <<"d", "u", "e", " ", "2", "0", "2", "4", "-", "0", "3", "-", "1", "5", " ", "o", "n", " ", "m", "o", "n", "d", "a", "y">>,
     <<"i", "n", " ", "3", " ", "d", "a", "y", "s", " ", "2", "0", "2", "4", "-", "0", "3", "-", "1", "5">>,
     <<"2", "0", "2", "4", "-", "0", "3", "-", "1", "5", " ", "n", "e", "x", "t", " ", "f", "r", "i", "d", "a", "y">>,
     <<"t", "h", "i", "s", " ", "f", "r", "i", "d", "a", "y", " ", "o", "r", " ", "2", "0", "2", "4", "-", "0", "3", "-", "1", "5">>,
     <<"b", "e", "f", "o", "r", "e", " ", "e", "n", "d", " ", "o", "f", " ", "w", "e", "e", "k", " ", "t", "o", "m", "o", "r", "r", "o", "w">>,
     <<"t", "o", "m", "o", "r", "r", "o", "w">>,
     <<"M", "o", "n", "d", "a", "y">>,
     <<"i", "n", " ", "3", " ", "d", "a", "y", "s">>,
     <<"2", " ", "d", "a", "y", "s", " ", "l", "a", "t", "e", "r">>,
     <<"5", " ", "d", "i", "n", " ", "b", "a", "a", "d">>,
     <<"e", "n", "d", " ", "o", "f", " ", "m", "o", "n", "t", "h">>,
     <<"n", "e", "x", "t", " ", "q", "u", "a", "r", "t", "e", "r">>,
     <<"n", "e", "x", "t", " ", "w", "e", "e", "k">>,
     <<"d", "a", "y", " ", "a", "f", "t", "e", "r", " ", "t", "o", "m", "o", "r", "r", "o", "w">>,
     <<"3", "/", "1", "5">>,
     <<"1", "5", "/", "3", "/", "2", "4">>,
     <<"2", "0", "2", "4", "-", "0", "2", "-", "3", "0">>,
     <<"g", "i", "b", "b", "e", "r", "i", "s", "h">>,
     <<"y", "e", "s", "t", "e", "r", "d", "a", "y">>,
     <<"c", "a", "l", "l", " ", "m", "o", "m", " ", "o", "n", " ", "s", "u", "n", "d", "a", "y">>,
     <<"N", "e", "x", "t", " ", "F", "r", "i", "d", "a", "y">>,
     <<"t", "h", "i", "s", " ", " ", "m", "o", "n", "d", "a", "y">>,
     <<"d", "e", "m", "o", "n", "s", "t", "r", "a", "t", "e">>,
     <<"n", "e", "x", "t", " ", "m", "o", "n", "t", "h">>}

\* texts that name a time
TimeTexts ==
    {<<"m", "o", "r", "n", "i", "n", "g">>,
     <<"a", "f", "t", "e", "r", "n", "o", "o", "n">>,
     <<"e", "v", "e", "n", "i", "n", "g">>,
     <<"n", "i", "g", "h", "t">>,
     <<"n", "o", "o", "n">>,
     <<"m", "i", "d", "n", "i", "g", "h", "t">>,
     <<"s", "u", "b", "a", "h">>,
     <<"d", "o", "p", "e", "h", "a", "r">>,
     <<"s", "h", "a", "a", "m">>,
     <<"r", "a", "a", "t">>,
     <<"1", "2", " ", "a", "m">>,
     <<"1", "2", " ", "p", "m">>,
     <<"1", " ", "p", "m">>,
     <<"2", " ", "p", "m">>,
     <<"3", " ", "p", "m">>,
     <<"4", " ", "p", "m">>,
     <<"5", " ", "p", "m">>,
     <<"6", " ", "p", "m">>,
     <<"7", " ", "p", "m">>,
     <<"8", " ", "p", "m">>,
     <<"9", " ", "p", "m">>,
     <<"1", "0", " ", "p", "m">>,
     <<"1", "1", " ", "p", "m">>,
     <<"3", ":", "3", "0", " ", "p", "m">>,
     <<"1", "4", ":", "0", "0">>,
     <<"9", " ", "a", ".", "m", ".">>,
     <<"7", "a", "m">>,
     <<"a", "t", " ", "m", "i", "d", "n", "i", "g", "h", "t">>,
     <<"t", "o", "m", "o", "r", "r", "o", "w", " ", "m", "o", "r", "n", "i", "n", "g">>,
     <<"n", "e", "x", "t", " ", "f", "r", "i", "d", "a", "y", " ", "5", " ", "p", "m">>,
     <<"t", "o", "m", "o", "r", "r", "o", "w", " ", "a", "t", " ", "1", "1", " ", "p", "m">>,
     <<"2", "0", "2", "4", "-", "0", "3", "-", "1", "5", " ", "9", ":", "0", "5">>,
     <<"1", "3", "0", "p", "m">>,
     <<"f", "r", "i", "d", "a", "y", " ", "a", "f", "t", "e", "r", "n", "o", "o", "n">>,
     <<"a", "t", " ", "2", "5", " ", "p", "m", " ", "t", "o", "m", "o", "r", "r", "o", "w">>}

(***************************************************************************)
(* The parser applied to one text and one reference instant.               *)
(***************************************************************************)
WORD_NEXT == <<"n", "e", "x", "t", " ">>
WORD_THIS == <<"t", "h", "i", "s", " ">>

\* "next W" and "this W" for the k-th name of DAY_NAMES
NextW(k) == WORD_NEXT \o DAY_NAMES[k].name
ThisW(k) == WORD_THIS \o DAY_NAMES[k].name

DateTexts ==
    {NextW(k) : k \in 1..Len(DAY_NAMES)} \cup {ThisW(k) : k \in 1..Len(DAY_NAMES)}
        \cup MixedTexts \cup TimeTexts

\* one reference instant on each day of a week that holds a leap day and the
\* end of a month, and one in the last days of a year
ReferenceDates ==
    {[year |-> 2024, month |-> 2, day |-> d, hour |-> 0, minute |-> 0] : d \in 26..29}
        \cup {[year |-> 2024, month |-> 3, day |-> d, hour |-> 0, minute |-> 0] : d \in 1..3}
        \cup {[year |-> 2024, month |-> 12, day |-> 30, hour |-> 15, minute |-> 45]}

InitDate ==
    /\ _tools = EmptyRegistry
    /\ registrations = <<>>
    /\ looked_up = None
    /\ TurnParked
    /\ NoTracker
    /\ NoService
    /\ subject \in [text : DateTexts, reference_date : ReferenceDates]
    /\ applied = EmptyDict

parse ==
    Applies("parse_natural_date",
            parse_natural_date(subject.text, subject.reference_date))

parseTimeOfDay ==
    Applies("parse_time_from_text", parse_time_from_text(subject.text))

parseDateAndTime ==
    Applies("parse_date_and_time",
            parse_date_and_time(subject.text, subject.reference_date))

NextDate == parse \/ parseTimeOfDay \/ parseDateAndTime

SpecDate == InitDate /\ [][NextDate]_vars


(***************************************************************************)
(* Properties of the date parser.                                          *)
(***************************************************************************)
Parsed == "parse_natural_date" \in DOMAIN applied

\* days from the reference instant to the parsed date
DaysAhead == toordinal(applied["parse_natural_date"].date)
                 - toordinal(subject.reference_date)

\* C21: for every reference date and every weekday W, "next W" is parsed to
\* the first date strictly after the reference date that falls on W, one to
\* seven days ahead and a full week ahead when the reference date falls on W
\* itself, with confidence 0.9.
C21_NextWeekdayStrictlyAfter ==
    \A k \in 1..Len(DAY_NAMES) :
        (Parsed /\ subject.text = NextW(k)) =>
            /\ applied["parse_natural_date"].date # NoDate
            /\ DaysAhead \in 1..7
            /\ weekday(applied["parse_natural_date"].date) = DAY_NAMES[k].weekday
            /\ (weekday(subject.reference_date) = DAY_NAMES[k].weekday
                    => DaysAhead = 7)
            /\ applied["parse_natural_date"].confidence = 90

\* "next monday" parsed on a Monday gives the Monday of the week after
C21_Witness ==
    /\ Parsed
    /\ subject.text = NextW(1)
    /\ weekday(subject.reference_date) = 0
    /\ DaysAhead = 7

\* what the claim says of "this W" for the k-th name of DAY_NAMES
ThisWeekday(k) ==
    (Parsed /\ subject.text = ThisW(k)) =>
        /\ applied["parse_natural_date"].date # NoDate
        /\ DaysAhead >= 0
        /\ weekday(subject.reference_date) + DaysAhead \in 0..6
        /\ (DAY_NAMES[k].weekday >= weekday(subject.reference_date)
                => weekday(applied["parse_natural_date"].date) = DAY_NAMES[k].weekday)
        /\ (DAY_NAMES[k].weekday < weekday(subject.reference_date)
                => DaysAhead = 0)
        /\ applied["parse_natural_date"].confidence = 85

\* C22: for every reference date and every weekday W, "this W" is parsed to
\* a date never before the reference date and within the reference date's
\* Monday-to-Sunday week: the day W of that week when W is today or later,
\* the reference date itself when W has passed, with confidence 0.85.
C22_ThisWeekdayWithinWeek == \A k \in 1..Len(DAY_NAMES) : ThisWeekday(k)

\* the confidence tiers of the date forms a text matches
FormTiers(text, reference_date) ==
    LET text_lower == Strip(Lower(text))
    IN (IF Contains(text_lower, END_OF_WEEK)
              \/ Contains(text_lower, END_OF_MONTH)
              \/ (\E k \in 1..Len(WEEK_EXPRESSIONS) :
                      /\ ~WEEK_EXPRESSIONS[k].none
                      /\ Contains(text_lower, WEEK_EXPRESSIONS[k].pattern))
              \/ KeywordDay(text_lower, next_patterns, 1) >= 0
              \/ InDays(text_lower, 1) >= 0 THEN {90} ELSE {})
       \cup (IF Contains(text_lower, NEXT_QUARTER)
                \/ KeywordDay(text_lower, this_patterns, 1) >= 0 THEN {85} ELSE {})
       \cup (IF FirstContained(RELATIVE_DATES, text_lower, 1) > 0 THEN {95} ELSE {})
       \cup (IF FirstStandalone(text_lower, 1) > 0 THEN {70} ELSE {})
       \cup ({CalendarDate(text, reference_date).confidence} \ {0})

\* the explicit ISO calendar date of a text that holds one
HoldsIsoDate(text) ==
    LET iso == IsoSearch(text, 1) IN iso # <<>> /\ IsDate(iso[1], iso[2], iso[3])

IsoDateOf(text) ==
    LET iso == IsoSearch(text, 1) IN datetime(iso[1], iso[2], iso[3])

\* C23: a text that matches more than one date form is parsed to the result
\* of the form with the highest confidence tier; a text that holds an
\* explicit ISO calendar date is parsed to exactly that date with confidence
\* 1.0, whatever other date words it holds.
C23_HighestTierWins ==
    Parsed =>
        /\ \A tier \in FormTiers(subject.text, subject.reference_date) :
               applied["parse_natural_date"].confidence >= tier
        /\ HoldsIsoDate(subject.text) =>
               /\ applied["parse_natural_date"].date = IsoDateOf(subject.text)
               /\ applied["parse_natural_date"].confidence = 100

TimeParsed == "parse_time_from_text" \in DOMAIN applied

\* "h am" and "h pm"
HourAm(h) == NumText(h) \o <<" ", "a", "m">>
HourPm(h) == NumText(h) \o <<" ", "p", "m">>

\* the named periods: the first six entries of TIME_OF_DAY
NamedPeriods == 1..6

\* the named periods are mapped to their own times
PeriodsOwnTime ==
    \A k \in NamedPeriods :
        (TimeParsed /\ subject.text = TIME_OF_DAY[k].expr) =>
            applied["parse_time_from_text"] =
                [hour |-> TIME_OF_DAY[k].hour, minute |-> TIME_OF_DAY[k].minute]

\* the 12-hour clock is normalised
ClockNormalized ==
    TimeParsed =>
        /\ subject.text = HourAm(12) =>
               applied["parse_time_from_text"] = [hour |-> 0, minute |-> 0]
        /\ subject.text = HourPm(12) =>
               applied["parse_time_from_text"] = [hour |-> 12, minute |-> 0]
        /\ \A h \in 1..11 :
               subject.text = HourPm(h) =>
                   applied["parse_time_from_text"] = [hour |-> h + 12, minute |-> 0]

\* C24: each named period is parsed to its own fixed time (morning 09:00,
\* afternoon 14:00, evening 18:00, night 21:00, noon 12:00, midnight 00:00),
\* also when one period name is a substring of another, and 12-hour clock
\* expressions are normalised: 12 am is hour 0, 12 pm is hour 12 and h pm is
\* hour h + 12 for h from 1 to 11.
C24_PeriodsAndClockNormalized == PeriodsOwnTime /\ ClockNormalized
\* HIGH_PRIORITY_KEYWORDS, in the order the set literal is written
HIGH_PRIORITY_KEYWORDS ==
    << <<"u", "r", "g", "e", "n", "t">>
     , <<"a", "s", "a", "p">>
     , <<"e", "m", "e", "r", "g", "e", "n", "c", "y">>
     , <<"c", "r", "i", "t", "i", "c", "a", "l">>
     , <<"i", "m", "p", "o", "r", "t", "a", "n", "t">>
     , <<"d", "e", "a", "d", "l", "i", "n", "e">>
     , <<"d", "u", "e", " ", "s", "o", "o", "n">>
     , <<"o", "v", "e", "r", "d", "u", "e">>
     , <<"i", "m", "m", "e", "d", "i", "a", "t", "e", "l", "y">>
     , <<"m", "u", "s", "t">>
     , <<"n", "e", "e", "d", " ", "t", "o">>
     , <<"h", "a", "v", "e", " ", "t", "o">>
     , <<"c", "r", "u", "c", "i", "a", "l">>
     , <<"v", "i", "t", "a", "l">>
     , <<"p", "r", "i", "o", "r", "i", "t", "y">>
     , <<"h", "i", "g", "h", " ", "p", "r", "i", "o", "r", "i", "t", "y">>
     , <<"z", "a", "r", "o", "o", "r", "i">>
     , <<"z", "a", "r", "u", "r", "i">>
     , <<"f", "o", "r", "i">>
     , <<"j", "a", "l", "d", "i">>
     , <<"a", "b", "h", "i">>
     , <<"l", "a", "z", "m", "i">>
     , <<"a", "h", "e", "m">>
     , <<"z", "a", "r", "o", "o", "r">>
     , <<"U+0636", "U+0631", "U+0648", "U+0631", "U+06CC">>
     , <<"U+0641", "U+0648", "U+0631", "U+06CC">>
     , <<"U+062C", "U+0644", "U+062F", "U+06CC">>
     , <<"U+0627", "U+0628", "U+06BE", "U+06CC">> >>

\* LOW_PRIORITY_KEYWORDS, in the order the set literal is written
LOW_PRIORITY_KEYWORDS ==
    << <<"w", "h", "e", "n", "e", "v", "e", "r">>
     , <<"s", "o", "m", "e", "d", "a", "y">>
     , <<"e", "v", "e", "n", "t", "u", "a", "l", "l", "y">>
     , <<"i", "f", " ", "p", "o", "s", "s", "i", "b", "l", "e">>
     , <<"w", "h", "e", "n", " ", "f", "r", "e", "e">>
     , <<"n", "o", " ", "r", "u", "s", "h">>
     , <<"l", "a", "t", "e", "r">>
     , <<"m", "a", "y", "b", "e">>
     , <<"o", "p", "t", "i", "o", "n", "a", "l">>
     , <<"n", "i", "c", "e", " ", "t", "o", " ", "h", "a", "v", "e">>
     , <<"j", "a", "b", " ", "b", "h", "i">>
     , <<"k", "a", "b", "i", " ", "b", "h", "i">>
     , <<"b", "a", "a", "d", " ", "m", "e", "i", "n">>
     , <<"p", "h", "i", "r", " ", "k", "a", "b", "h", "i">>
     , <<"U+062C", "U+0628", " ", "U+0628", "U+06BE", "U+06CC">>
     , <<"U+0628", "U+0639", "U+062F", " ", "U+0645", "U+06CC", "U+06BA">> >>

\* TIME_SENSITIVE_KEYWORDS, in the order the set literal is written
TIME_SENSITIVE_KEYWORDS ==
    << <<"t", "o", "d", "a", "y">>
     , <<"t", "o", "n", "i", "g", "h", "t">>
     , <<"t", "h", "i", "s", " ", "m", "o", "r", "n", "i", "n", "g">>
     , <<"t", "h", "i", "s", " ", "a", "f", "t", "e", "r", "n", "o", "o", "n">>
     , <<"t", "o", "m", "o", "r", "r", "o", "w">>
     , <<"n", "e", "x", "t", " ", "w", "e", "e", "k">>
     , <<"b", "y", " ", "m", "o", "n", "d", "a", "y">>
     , <<"b", "y", " ", "f", "r", "i", "d", "a", "y">>
     , <<"e", "n", "d", " ", "o", "f", " ", "d", "a", "y">>
     , <<"e", "o", "d">>
     , <<"e", "n", "d", " ", "o", "f", " ", "w", "e", "e", "k">>
     , <<"e", "o", "w">>
     , <<"a", "a", "j">>
     , <<"k", "a", "l">>
     , <<"U+0622", "U+062C">>
     , <<"U+06A9", "U+0644">> >>

\* a set of str is walked in the order of its hash table, which the salt of
\* the process fixes: the order written, or the reverse
SetOrder(keywords) ==
    IF hash_seed = 0 THEN keywords
    ELSE [k \in 1..Len(keywords) |-> keywords[Len(keywords) + 1 - k]]

\* the first keyword of the walk that occurs in the text, <<>> for none
RECURSIVE FirstKeyword(_, _, _)
FirstKeyword(keywords, text, k) ==
    IF k > Len(keywords) THEN <<>>
    ELSE IF Contains(text, keywords[k]) THEN keywords[k]
    ELSE FirstKeyword(keywords, text, k + 1)

TaskSuggestion(suggestion_type, confidence, data) ==
    [suggestion_type |-> suggestion_type, confidence |-> confidence, data |-> data]

suggest_priority(task_title, task_description) ==
    LET text == Lower(task_title \o <<" ">> \o task_description)
        high == FirstKeyword(SetOrder(HIGH_PRIORITY_KEYWORDS), text, 1)
        low == FirstKeyword(SetOrder(LOW_PRIORITY_KEYWORDS), text, 1)
        timed == FirstKeyword(SetOrder(TIME_SENSITIVE_KEYWORDS), text, 1)
    IN IF high # <<>>
       THEN TaskSuggestion("priority", 85,
                           [suggested_priority |-> "high", trigger |-> high])
       ELSE IF low # <<>>
       THEN TaskSuggestion("priority", 75,
                           [suggested_priority |-> "low", trigger |-> low])
       ELSE IF timed # <<>>
       THEN TaskSuggestion("priority", 70,
                           [suggested_priority |-> "medium", trigger |-> timed])
       ELSE TaskSuggestion("priority", 50,
                           [suggested_priority |-> "medium", trigger |-> <<>>])

\* the first n elements of a list: s[:n]
FirstN(s, n) == SubSeq(s, 1, IF Len(s) < n THEN Len(s) ELSE n)

Elements(s) == {s[k] : k \in 1..Len(s)}

\* the tasks an analysis looks at: not completed and with a due date
IsDue(task) == ~task.completed /\ task.has_due

suggest_focus_tasks(tasks) ==
    LET overdue_tasks == SelectSeq(tasks, LAMBDA t : IsDue(t) /\ t.due_date < today)
        due_today == SelectSeq(tasks, LAMBDA t : IsDue(t) /\ t.due_date = today)
        high_priority == SelectSeq(tasks, LAMBDA t : ~t.completed /\ t.priority = "high")
        first == FirstN(overdue_tasks, 2)
        second == first \o FirstN(SelectSeq(due_today,
                                            LAMBDA t : t \notin Elements(first)), 2)
        focus_tasks == second \o FirstN(SelectSeq(high_priority,
                                                  LAMBDA t : t \notin Elements(second)), 2)
    IN IF focus_tasks = <<>>
       THEN TaskSuggestion("focus", 50,
                           [focus_tasks |-> <<>>, summary |-> "all_clear"])
       ELSE TaskSuggestion("focus", 85,
                           [focus_tasks |-> FirstN(focus_tasks, 5),
                            overdue_count |-> Len(overdue_tasks),
                            due_today_count |-> Len(due_today),
                            high_priority_count |-> Len(high_priority)])

\* the keys of tasks_by_date, in the order they were inserted
RECURSIVE DateKeys(_)
DateKeys(tasks) ==
    IF tasks = <<>> THEN <<>>
    ELSE LET before == DateKeys(SubSeq(tasks, 1, Len(tasks) - 1))
             date_key == tasks[Len(tasks)].due_date
         IN IF date_key \in Elements(before) THEN before
            ELSE Append(before, date_key)

\* list.sort(key=task_count, reverse=True): stable, largest count first
RECURSIVE SortByCount(_)
SortByCount(days) ==
    IF days = <<>> THEN <<>>
    ELSE LET sorted == SortByCount(SubSeq(days, 1, Len(days) - 1))
             last == days[Len(days)]
             ahead == SelectSeq(sorted, LAMBDA d : d.task_count >= last.task_count)
             behind == SelectSeq(sorted, LAMBDA d : d.task_count < last.task_count)
         IN ahead \o <<last>> \o behind

\* round(total / days, 1) in tenths, 0 when days is 0; no count of the model
\* lies half way between two tenths
Round1(total, days) ==
    IF days > 0 THEN (20 * total + days) \div (2 * days) ELSE 0

analyze_workload(tasks, days_ahead) ==
    LET upcoming == SelectSeq(tasks, LAMBDA t :
                        /\ IsDue(t)
                        /\ today <= t.due_date
                        /\ t.due_date <= today + days_ahead)
        keys == DateKeys(upcoming)
        OnDate(date_key) == SelectSeq(upcoming, LAMBDA t : t.due_date = date_key)
        Day(date_key) ==
            [date |-> date_key,
             task_count |-> Len(OnDate(date_key)),
             high_priority_count |->
                 Len(SelectSeq(OnDate(date_key), LAMBDA t : t.priority = "high"))]
        days == [k \in 1..Len(keys) |-> Day(keys[k])]
        overloaded_days == SortByCount(SelectSeq(days, LAMBDA d :
                               d.task_count >= 5 \/ d.high_priority_count >= 3))
        total_upcoming == Len(upcoming)
    IN IF overloaded_days # <<>>
       THEN TaskSuggestion("workload", 85,
                           [overloaded_days |-> overloaded_days,
                            total_upcoming |-> total_upcoming,
                            busiest_day |-> overloaded_days[1],
                            avg_per_day |-> Round1(total_upcoming, days_ahead)])
       ELSE TaskSuggestion("workload", 80,
                           [overloaded_days |-> <<>>,
                            total_upcoming |-> total_upcoming,
                            avg_per_day |-> Round1(total_upcoming, days_ahead)])

(***************************************************************************)
(* The suggestion service asked over several days.                         *)
(***************************************************************************)
\* the days the wall clock runs through
MaxToday == 2

\* the calls a run records
MaxSuggestions == 2

TITLE_URGENT == <<"U", "r", "g", "e", "n", "t", " ", "r", "e", "p", "o", "r", "t">>
TITLE_URGENT_IMPORTANT ==
    <<"u", "r", "g", "e", "n", "t", " ", "a", "n", "d", " ",
      "i", "m", "p", "o", "r", "t", "a", "n", "t">>
TITLE_LATER == <<"c", "a", "l", "l", " ", "m", "o", "m", " ", "l", "a", "t", "e", "r">>
TITLE_TODAY == <<"b", "u", "y", " ", "m", "i", "l", "k", " ", "t", "o", "d", "a", "y">>

SuggestTitles == {TITLE_URGENT, TITLE_URGENT_IMPORTANT, TITLE_LATER, TITLE_TODAY, TITLE_MILK}

Listed(title, due_date, priority) ==
    [title |-> title, completed |-> FALSE, has_due |-> TRUE,
     due_date |-> due_date, priority |-> priority]

\* the task lists given to the analyses: three urgent tasks on one day, two
\* loaded days of different size, a list with a completed and an undated task
SuggestLists ==
    { <<>>,
      <<Listed("a", 1, "high"), Listed("b", 1, "high"), Listed("c", 1, "high")>>,
      <<Listed("a", 2, "high"), Listed("b", 2, "high"), Listed("c", 2, "high"),
        Listed("d", 3, "high"), Listed("e", 3, "high"), Listed("f", 3, "high"),
        Listed("g", 3, "low")>>,
      <<[Listed("a", 1, "medium") EXCEPT !.completed = TRUE],
        [Listed("b", 0, "high") EXCEPT !.has_due = FALSE],
        Listed("c", 1, "medium"), Listed("d", 2, "low")>> }

InitSug ==
    /\ _tools = EmptyRegistry
    /\ registrations = <<>>
    /\ looked_up = None
    /\ TurnParked
    /\ NoTracker
    /\ NoApplication
    /\ NoManager
    /\ hash_seed \in {0, 1}
    /\ today = 0
    /\ suggested = {}

\* history: the call fn(args) returned result
Suggests(fn, args, result) ==
    /\ Cardinality(suggested) < MaxSuggestions
    /\ suggested' = suggested \cup {[fn |-> fn, args |-> args, result |-> result]}
    /\ UNCHANGED <<hash_seed, today, regVars, turnVars, ctxVars, fnVars, tmVars>>

suggestPriority ==
    \E task_title \in SuggestTitles, task_description \in {<<>>, TITLE_LATER} :
        Suggests("suggest_priority", <<task_title, task_description>>,
                 suggest_priority(task_title, task_description))

suggestFocusTasks ==
    \E tasks \in SuggestLists :
        Suggests("suggest_focus_tasks", <<tasks>>, suggest_focus_tasks(tasks))

analyzeWorkload ==
    \E tasks \in SuggestLists :
        Suggests("analyze_workload", <<tasks, 7>>, analyze_workload(tasks, 7))

\* the wall clock reaches the next day
day_passes ==
    /\ today < MaxToday
    /\ today' = today + 1
    /\ UNCHANGED <<hash_seed, suggested, regVars, turnVars, ctxVars, fnVars, tmVars>>

NextSug == suggestPriority \/ suggestFocusTasks \/ analyzeWorkload \/ day_passes

SpecSug == InitSug /\ [][NextSug]_vars

\* C25: every suggestion function is a pure function of its arguments: two
\* calls with identical arguments return identical suggestion kind,
\* confidence and data, whatever the wall-clock time of the calls and
\* whatever calls were made in between.
C25_SuggestionsArePure ==
    \A a \in suggested, b \in suggested :
        (a.fn = b.fn /\ a.args = b.args) => a.result = b.result

\* suggest_priority alone is pure within a process
PriorityIsPure ==
    \A a \in suggested, b \in suggested :
        (a.fn = "suggest_priority" /\ b.fn = "suggest_priority" /\ a.args = b.args)
            => a.result = b.result

(***************************************************************************)
(* Properties of the chat turn: what is reported, who is acted for, and    *)
(* what completing a task creates.                                         *)
(***************************************************************************)
\* the execute_tool calls of the turn that reached a registered handler
HandlerCalls == SelectSeq(invoked, LAMBDA c : c.tool \in DOMAIN _tools)

\* the number of elements of a list of records whose tool is tool_name
CountTool(entries, tool_name) ==
    Len(SelectSeq(entries, LAMBDA e : e.tool = tool_name))

\* C26: every tool invocation a turn performs is reported: whenever
\* process_message returns, the returned tool_calls list holds one entry for
\* each tool handler invoked during the turn, also when a later step of the
\* turn failed and for each deletion of delete-all.
C26_EveryInvocationReported ==
    (pc = "done" /\ outcome.kind = "returned") =>
        \A tool_name \in DOMAIN _tools :
            CountTool(outcome.tool_calls, tool_name) >= CountTool(HandlerCalls, tool_name)

\* the same for the turns that ran structured or recovered calls to the end
ListedCallsReported ==
    (pc = "done" /\ outcome.kind = "returned" /\ local.tier \in {1, 2}
        /\ local.exc_origin = None) =>
        \A tool_name \in DOMAIN _tools :
            CountTool(outcome.tool_calls, tool_name) >= CountTool(HandlerCalls, tool_name)

\* the listed tasks that the delete-all turn itself removed from the store:
\* gone from the store, and not deleted by another turn
RemovedByTurn ==
    {k \in 1..Len(local.tasks) :
        /\ \A t \in store : IdText(t.id) # local.tasks[k].id
        /\ \A d \in 1..Len(other_deletes) :
               IdText(other_deletes[d].id) # local.tasks[k].id}

DeleteAllReturned ==
    /\ pc = "done"
    /\ outcome.kind = "returned"
    /\ local.detected_tool = "delete_all"

\* C27: the deleted_count that delete-all reports is the number of tasks the
\* turn removed from the store, also when a listed task was removed by
\* another turn before its deletion was attempted.
C27_DeletedCountIsExact ==
    DeleteAllReturned =>
        outcome.tool_calls[Len(outcome.tool_calls)].result.deleted_count
            = Cardinality(RemovedByTurn)

\* the same for the turns that no other turn interfered with
DeletedCountExactAlone ==
    (DeleteAllReturned /\ other_deletes = <<>>) =>
        outcome.tool_calls[Len(outcome.tool_calls)].result.deleted_count
            = Cardinality(RemovedByTurn)

\* the calls of the turn whose arguments, as the model gave them, name a user
ModelNamedUser ==
    {k \in 1..Len(invoked) :
        /\ local.tier \in {1, 2}
        /\ k <= Len(local.calls)
        /\ local.calls[k].arguments.ok
        /\ "user_id" \in DOMAIN local.calls[k].arguments.value}

\* C28: every handler invoked during a turn, in each of the three tiers, is
\* given the caller's user id and the caller's session, whatever user_id or
\* session the model's structured or text-recovered arguments carried
C28_HandlersGetCallerIdentity ==
    \A k \in 1..Len(invoked) :
        /\ invoked[k].user_id = CallerId
        /\ invoked[k].session = CallerSession

\* a finished turn that invoked a call whose own arguments named another user
C28_Witness ==
    /\ pc = "done"
    /\ \E k \in ModelNamedUser :
        /\ local.calls[k].arguments.value.user_id = OTHER_USER
        /\ invoked[k].user_id = CallerId

(***************************************************************************)
(* Completing recurring tasks (phase 4 backend, mcp/tools/complete_task.py):*)
(* complete_task calls arrive one after another on a store that starts     *)
(* with open tasks of each recurrence pattern.                             *)
(***************************************************************************)
RecurringTask(id, due_date, pattern, end_date) ==
    [PlainTask(id, TITLE_MILK) EXCEPT !.due_date = due_date,
                                      !.recurrence_pattern = pattern,
                                      !.recurrence_end_date = end_date]

\* no due date, 2024-01-31 and 2024-02-29
DueDays == {0, 31, 60}

\* no end date, 2024-02-07 and 2024-03-01
EndDays == {0, 38, 61}

RecurringStores ==
    {{RecurringTask(1, due_date, pattern, end_date)} :
        due_date \in DueDays, pattern \in ValidRecurrence, end_date \in EndDays}
    \cup {{RecurringTask(1, 31, "daily", 0), DoneTask(2, TITLE_TEA)}}

CompletedIds == {IdText(id) : id \in 1..(MaxTasks + 1)} \cup {<<"x">>}

InitRec ==
    /\ _tools = EmptyRegistry
    /\ registrations = <<>>
    /\ looked_up = None
    /\ store \in RecurringStores
    /\ next_id = Cardinality(store) + 1
    /\ pc = "idle"
    /\ message = <<>>
    /\ assistant_message = [tool_calls |-> <<>>, content |-> <<>>]
    /\ local = EmptyDict
    /\ tool_calls_results = <<>>
    /\ outcome = [kind |-> "none"]
    /\ invoked = <<>>
    /\ model_calls = 0
    /\ other_deletes = <<>>
    /\ NoTracker
    /\ NoService
    /\ NoApplication

\* one complete_task call returns; applied keeps the call and its answer
complete_task ==
    /\ next_id <= MaxTasks
    /\ \E task_id \in CompletedIds :
        LET r == complete_task_handler(store, next_id,
                     [user_id |-> CallerId, session |-> CallerSession,
                      task_id |-> task_id])
        IN  /\ store' = StoreAfter(r)
            /\ next_id' = NextIdAfter(r)
            /\ applied' = ("complete_task" :>
                              [task_id |-> task_id, response |-> r.value])
    /\ UNCHANGED <<regVars, pc, message, assistant_message, local,
                   tool_calls_results, outcome, invoked, model_calls,
                   other_deletes, ctxVars, subject, sugVars, tmVars>>

NextRec == complete_task

SpecRec == InitRec /\ [][NextRec]_vars

\* the occurrences made from task t
Children(tasks, t) == {c \in tasks : c.parent_task_id = t.id}

\* the day the next occurrence of t falls due: a day, a week or a calendar
\* month after its due date, or after today when it has none
NextDueOf(t) ==
    LET from == IF t.due_date # 0 THEN t.due_date ELSE NowDay
        d == DateOfDay(from)
        next_month == IF d.month = 12 THEN datetime(d.year + 1, 1, 1)
                      ELSE datetime(d.year, d.month + 1, 1)
        same_day == [next_month EXCEPT !.day = d.day]
    IN  CASE t.recurrence_pattern = "daily" -> from + 1
          [] t.recurrence_pattern = "weekly" -> from + 7
          [] t.recurrence_pattern = "monthly" ->
                IF IsDate(same_day.year, same_day.month, same_day.day)
                THEN DayOfDate(same_day)
                ELSE DayOfDate([next_month EXCEPT
                         !.day = monthrange(next_month.year, next_month.month)])

Recurs(t) == t.recurrence_pattern \in {"daily", "weekly", "monthly"}

PastEnd(t) == t.recurrence_end_date # 0 /\ NextDueOf(t) > t.recurrence_end_date

\* the call made in this step names an open task of the store
CompletedNow ==
    /\ "complete_task" \in DOMAIN applied'
    /\ LET id == ParseUUID(applied'["complete_task"].task_id)
       IN  /\ HasTask(store, id)
           /\ ~TaskById(store, id).completed

\* what a call that completes open task t does to the store
CompletesOnce(t) ==
    LET done == [t EXCEPT !.completed = TRUE]
        made == store' \ ((store \ {t}) \cup {done})
    IN  /\ (store \ {t}) \cup {done} \subseteq store'
        /\ IF Recurs(t) /\ ~PastEnd(t)
           THEN /\ Cardinality(made) = 1
                /\ \A c \in made :
                    /\ c.parent_task_id = t.id
                    /\ c.due_date = NextDueOf(t)
                    /\ c.recurrence_pattern = t.recurrence_pattern
                    /\ ~c.completed
                    /\ c.id \notin {u.id : u \in store}
           ELSE made = {}

\* C29: completing an open recurring task makes exactly one next occurrence,
\* linked to it as parent and due one period later, and none when that day
\* is after the recurrence end date; completing a completed task changes
\* nothing; so no task ever has more than one occurrence made from it
C29_OneOccurrencePerCompletion ==
    [][/\ CompletedNow =>
            CompletesOnce(TaskById(store,
                ParseUUID(applied'["complete_task"].task_id)))
       /\ ~CompletedNow => store' = store
       /\ \A t \in store' : Cardinality(Children(store', t)) <= 1]_vars

\* the occurrence of a completed monthly task due 2024-01-31 was itself
\* completed past the end date, and the parent was then completed once more
C29_Witness ==
    /\ "complete_task" \in DOMAIN applied
    /\ "status" \in DOMAIN applied["complete_task"].response
    /\ applied["complete_task"].response.status = "already_completed"
    /\ \E t \in store : \E c \in Children(store, t) :
        /\ t.recurrence_pattern = "monthly"
        /\ t.due_date = 31
        /\ c.due_date = 60
        /\ c.completed
        /\ Children(store, c) = {}

(***************************************************************************)
(* The in-memory TaskManager of the console application (phase 1,          *)
(* task_manager.py and models.py).  The Task objects live in heap, where   *)
(* the index is the address: _tasks and _task_list hold addresses, as the  *)
(* dict and the list of the program hold references to the same objects.   *)
(* What a call raised is kept as the text "Type: message".                 *)
(***************************************************************************)
\* add_task calls made in one run
MaxAdds == 3

\* None as the title or description argument of update
Unset == <<None>>

TITLE_EMPTY == "ValueError: Task title cannot be empty"
EMPTY == "ValueError: Title cannot be empty"
TITLE_TOO_LONG == "ValueError: Title cannot exceed 200 characters"
DESCRIPTION_TOO_LONG == "ValueError: Description cannot exceed 1000 characters"
KeyError == "KeyError: Task with ID does not exist"

\* Task._validate_title: the exception raised, or None and the stripped title
_validate_title(title) ==
    IF title = <<>> \/ Len(Strip(title)) = 0 THEN [raised |-> EMPTY, value |-> title]
    ELSE IF Len(title) > 200 THEN [raised |-> TITLE_TOO_LONG, value |-> title]
    ELSE [raised |-> None, value |-> Strip(title)]

\* Task._validate_description
_validate_description(description) ==
    IF Len(description) > 1000
    THEN [raised |-> DESCRIPTION_TOO_LONG, value |-> description]
    ELSE [raised |-> None, value |-> description]

\* Task.__init__: the exception raised, or None and the object made
Task(task_id, title, description, completed) ==
    LET t == _validate_title(title)
        d == _validate_description(description)
        task == [id |-> task_id, title |-> t.value, description |-> d.value,
                 completed |-> completed]
    IN  IF t.raised # None THEN [raised |-> t.raised, task |-> task]
        ELSE [raised |-> d.raised, task |-> task]

\* Task.update: the title is validated and assigned, then the description;
\* the object is returned as the call leaves it, raising or not
update(task, title, description) ==
    LET t == IF title # Unset THEN _validate_title(title)
             ELSE [raised |-> None, value |-> task.title]
        titled == IF t.raised = None THEN [task EXCEPT !.title = t.value] ELSE task
        d == IF description # Unset THEN _validate_description(description)
             ELSE [raised |-> None, value |-> task.description]
    IN  IF t.raised # None THEN [raised |-> t.raised, task |-> task]
        ELSE IF d.raised # None THEN [raised |-> d.raised, task |-> titled]
        ELSE [raised |-> None, task |-> [titled EXCEPT !.description = d.value]]

\* list.remove(x): the list without the first element equal to x
remove(list, x) ==
    LET k == CHOOSE i \in 1..Len(list) :
                 list[i] = x /\ \A j \in 1..(i - 1) : list[j] # x
    IN  SubSeq(list, 1, k - 1) \o SubSeq(list, k + 1, Len(list))

\* del d[key]
Del(d, key) == [k \in DOMAIN d \ {key} |-> d[k]]

Raises(exc) ==
    /\ raised' = exc
    /\ UNCHANGED <<_tasks, _task_list, _next_id, heap, issued>>

NotManager == <<regVars, turnVars, ctxVars, fnVars, sugVars>>

LONG_TITLE == [k \in 1..201 |-> "x"]
LONG_DESCRIPTION == [k \in 1..1001 |-> "x"]
TaskTitles == {<<>>, <<" ">>, <<"a">>, <<" ", "b">>, LONG_TITLE}
TaskDescriptions == {<<>>, LONG_DESCRIPTION}
TaskIds == 1..(MaxAdds + 1)

InitTM ==
    /\ _tools = EmptyRegistry
    /\ registrations = <<>>
    /\ looked_up = None
    /\ TurnParked
    /\ NoTracker
    /\ NoSuggestion
    /\ NoApplication
    /\ NoManager

add_task ==
    /\ Len(heap) < MaxAdds
    /\ \E title \in TaskTitles, description \in TaskDescriptions :
        LET made == Task(_next_id, title, description, FALSE)
            task == made.task
            address == Len(heap) + 1
        IN  IF title = <<>> \/ Len(Strip(title)) = 0 THEN Raises(TITLE_EMPTY)
            ELSE IF made.raised # None THEN Raises(made.raised)
            ELSE /\ heap' = Append(heap, task)
                 /\ _tasks' = (task.id :> address) @@ _tasks
                 /\ _task_list' = Append(_task_list, address)
                 /\ _next_id' = _next_id + 1
                 /\ issued' = Append(issued, task.id)
                 /\ raised' = None
    /\ UNCHANGED NotManager

update_task ==
    /\ \E task_id \in TaskIds, title \in TaskTitles \cup {Unset},
          description \in TaskDescriptions \cup {Unset} :
        IF task_id \notin DOMAIN _tasks THEN Raises(KeyError)
        ELSE LET address == _tasks[task_id]
                 u == update(heap[address], title, description)
             IN  /\ heap' = [heap EXCEPT ![address] = u.task]
                 /\ raised' = u.raised
                 /\ UNCHANGED <<_tasks, _task_list, _next_id, issued>>
    /\ UNCHANGED NotManager

\* a delete_task that hands the freed id out again
delete_task_frees_id ==
    /\ \E task_id \in TaskIds :
        IF task_id \notin DOMAIN _tasks THEN Raises(KeyError)
        ELSE LET task_to_delete == _tasks[task_id]
             IN  /\ _tasks' = Del(_tasks, task_id)
                 /\ _task_list' = remove(_task_list, task_to_delete)
                 /\ _next_id' = task_id
                 /\ raised' = None
                 /\ UNCHANGED <<heap, issued>>
    /\ UNCHANGED NotManager

delete_task ==
    /\ \E task_id \in TaskIds :
        IF task_id \notin DOMAIN _tasks THEN Raises(KeyError)
        ELSE LET task_to_delete == _tasks[task_id]
             IN  /\ _tasks' = Del(_tasks, task_id)
                 /\ _task_list' = remove(_task_list, task_to_delete)
                 /\ raised' = None
                 /\ UNCHANGED <<_next_id, heap, issued>>
    /\ UNCHANGED NotManager

mark_complete ==
    /\ \E task_id \in TaskIds, completed \in BOOLEAN :
        IF task_id \notin DOMAIN _tasks THEN Raises(KeyError)
        ELSE /\ heap' = [heap EXCEPT ![_tasks[task_id]].completed = completed]
             /\ raised' = None
             /\ UNCHANGED <<_tasks, _task_list, _next_id, issued>>
    /\ UNCHANGED NotManager

toggle_completion ==
    /\ \E task_id \in TaskIds :
        IF task_id \notin DOMAIN _tasks THEN Raises(KeyError)
        ELSE /\ heap' = [heap EXCEPT ![_tasks[task_id]].completed = ~@]
             /\ raised' = None
             /\ UNCHANGED <<_tasks, _task_list, _next_id, issued>>
    /\ UNCHANGED NotManager

NextTM ==
    \/ add_task
    \/ update_task
    \/ delete_task
    \/ mark_complete
    \/ toggle_completion

SpecTM == InitTM /\ [][NextTM]_vars

\* the dict and the list hold exactly the same Task objects, each once, and
\* each under its own id
SameTasks ==
    /\ {_tasks[id] : id \in DOMAIN _tasks}
         = {_task_list[k] : k \in 1..Len(_task_list)}
    /\ Len(_task_list) = Cardinality(DOMAIN _tasks)
    /\ \A k, l \in 1..Len(_task_list) : _task_list[k] = _task_list[l] => k = l
    /\ \A id \in DOMAIN _tasks : heap[_tasks[id]].id = id

\* objects are made one after another, so the address orders as creation does
CreationOrder ==
    \A k, l \in 1..Len(_task_list) : k < l => _task_list[k] < _task_list[l]

\* add_task returned the ids 1, 2, 3, ... whatever was deleted in between
IdsNeverReused ==
    /\ \A k \in 1..Len(issued) : issued[k] = k
    /\ _next_id = Len(issued) + 1

\* the raises the statement names: an empty title and an unknown id
NamedRaises == {TITLE_EMPTY, EMPTY, KeyError}

\* C30: after any sequence of add_task, update_task, delete_task,
\* mark_complete and toggle_completion, the id-indexed map and the ordered
\* list hold exactly the same tasks, the list is in creation order, the ids
\* handed out are 1, 2, 3, ... and are never reused after a deletion, and a
\* call that raises for an empty title or an unknown id leaves the store and
\* the next id unchanged
C30_StoreStaysConsistent ==
    [][/\ SameTasks'
       /\ CreationOrder'
       /\ IdsNeverReused'
       /\ raised' \in NamedRaises =>
            UNCHANGED <<_tasks, _task_list, _next_id, heap>>]_vars

\* three tasks were added, the second was deleted before the third was
\* added, and a call on the deleted id has just raised
C30_Witness ==
    /\ issued = <<1, 2, 3>>
    /\ DOMAIN _tasks = {1, 3}
    /\ _task_list = <<1, 3>>
    /\ raised = KeyError

\* the same for a call that raises for any reason; this one does not hold:
\* update_task with a valid title and a description of more than 1000
\* characters raises after Task.update has assigned the title
AnyRaiseKeepsStore ==
    [][raised' # None => UNCHANGED <<_tasks, _task_list, _next_id, heap>>]_vars

====
